---- MODULE Spec2Model ----
(***************************************************************************)
(* WellnessGrid RAG content pipeline: the document-to-embedding scripts.   *)
(*                                                                         *)
(*   Spec         scripts/data-processing/embed_documents.py               *)
(*                DocumentEmbedder.embed_document over the registry and    *)
(*                the two tables medical_documents / document_embeddings   *)
(*   SpecScraped  scripts/data-processing/embed_scraped_documents.py       *)
(*                runs of ScrapedDocumentEmbedder.embed_scraped_documents  *)
(*                over one input file and the same two tables              *)
(*   SpecPipeline scripts/data-processing/embed_and_upload_mcp.py and      *)
(*                scripts/data-processing/auto_scrape_and_embed.py:        *)
(*                setup_embedding_model, process_documents_to_embeddings   *)
(*                and the preparation of the upload                        *)
(*                                                                         *)
(* Texts are sequences of one-character strings over the alphabet          *)
(* {"a", ".", " "}.  Chunk sizes are scaled down from the source's         *)
(* 1000/200 so that multi-chunk documents stay small.  SHA-256 prefixes    *)
(* are treated as collision free (an uninterpreted injective tag).         *)
(***************************************************************************)
EXTENDS Integers, Sequences, FiniteSets, TLC

VARIABLES
    medical_documents,      \* table medical_documents: set of rows
    document_embeddings,    \* table document_embeddings: set of rows
    next_id,                \* next primary key the database hands out
    embedded_documents,     \* registry["embedded_documents"]: source_id -> entry
    statistics,             \* registry["statistics"]
    last,                   \* the last embed_document call and what it returned
    ok_calls,               \* history: <<source, content>> of calls that returned True
    last_ok,                \* history: source_id -> content of its latest successful ingestion
    sc_pc,                  \* ScrapedDocumentEmbedder: "running" | "finished"
    sc_run,                 \* number of the current run of embed_scraped_documents
    sc_pos,                 \* 1-based position of the next input document of the run
    sc_counts,              \* embedded_count, skipped_count, failed_count, total_chunks
    sc_result,              \* this run: position -> "pending" | "embedded" | "skipped" | "failed"
    sc_prev,                \* the run before: position -> its result ("none" in the first run)
    pl_impl,                \* "mcp": MedicalDocumentEmbedder, "auto": AutoScrapingEmbeddingPipeline
    pl_pc,                  \* "created" | "model_ready" | "processed" | "prepared" | "aborted"
    pl_actual_dim,          \* length of the vectors the loaded model produces
    pl_dim,                 \* self.embedding_dimension
    pl_i,                   \* enumerate index of the next document
    pl_embedding_data,      \* embedding_data / embeddings_data: the entries emitted so far
    pl_stats,               \* self.stats / self.pipeline_stats
    pl_upload,              \* documents and embeddings prepared for the upload
    pl_log,                 \* history: per processed document, its chunks and which encode calls raised
    mn_pc,                  \* main: "init" | "loop" | "done" | "crashed"
    mn_force,               \* args.force
    mn_clear_db,            \* args.clear_db
    mn_i,                   \* number of sources the loop has handled
    mn_processed,           \* processed
    mn_embedded,            \* embedded
    mn_sessions,            \* registry.registry["embedding_sessions"]
    mn_saved,               \* the registry file as last written
    mn_fetches,             \* history: the requests made, in order, and whether each failed
    mn_log,                 \* history: per handled source, its content and whether embed_document was called
    ck_fn,                  \* the chunker called
    ck_text,                \* its argument text
    ck_chunk_size,          \* its chunk size
    ck_overlap,             \* its overlap
    ck_pc,                  \* "called" | "loop" | "returned" | "raised"
    ck_start,               \* start
    ck_chunks,              \* chunks
    ck_windows,             \* history: start and end of the windows cut so far
    es_pc,                  \* scrape_all_sources: "web" | "collected" | "unique" | "filtered" | "returned" | "raised"
    es_i,                   \* number of URLs handled
    es_documents,           \* all_documents, then the list each later stage returns
    es_duplicate_hashes,    \* self.duplicate_hashes
    es_processed_urls,      \* self.processed_urls
    es_failed_urls,         \* self.failed_urls
    su_pc,                  \* smart_upload_remaining.main: "start" | "uploading" | "done"
    su_file,                \* the INSERT lines of the SQL file
    su_unique,              \* whether the table rejects a second row with the same id
    su_table,               \* medical_documents as smart_upload_remaining sees it: the ids of its rows
    su_existing_ids,        \* existing_ids
    su_documents_to_upload, \* documents_to_upload
    su_next,                \* number of documents of documents_to_upload handled
    su_counts,              \* uploaded_count and failed_count
    su_calls,               \* history: per INSERT sent, its id, whether the id was in the table, whether the row was added
    dd_impl,                \* the scraper whose duplicate removal is called
    dd_pc,                  \* "called" | "returned"
    dd_documents,           \* the argument documents / all_documents
    dd_unique,              \* the list returned
    cr_cat,                 \* number of categories of sorted_categories the loop has left behind
    cr_tasks,               \* the scrape_web_source coroutines gathered for the current category
    cr_log,                 \* history: categories started, requests sent, sources completed, API scraping
    fl_rng,                 \* simple_flask: the state of numpy's global generator
    fl_requests             \* simple_flask: the /embed requests received, each with its thread's position

storeVars == <<medical_documents, document_embeddings, next_id>>
registryVars == <<embedded_documents, statistics, last, ok_calls, last_ok>>
scrapedVars == <<sc_pc, sc_run, sc_pos, sc_counts, sc_result, sc_prev>>

pipelineVars == <<pl_impl, pl_pc, pl_actual_dim, pl_dim, pl_i, pl_embedding_data,
                  pl_stats, pl_upload, pl_log>>

mainVars == <<mn_pc, mn_force, mn_clear_db, mn_i, mn_processed, mn_embedded,
              mn_sessions, mn_saved, mn_fetches, mn_log>>

chunkerVars == <<ck_fn, ck_text, ck_chunk_size, ck_overlap, ck_pc, ck_start,
                 ck_chunks, ck_windows>>

scraperVars == <<es_pc, es_i, es_documents, es_duplicate_hashes, es_processed_urls,
                 es_failed_urls>>

uploadVars == <<su_pc, su_file, su_unique, su_table, su_existing_ids,
                su_documents_to_upload, su_next, su_counts, su_calls>>

dedupVars == <<dd_impl, dd_pc, dd_documents, dd_unique>>

crawlVars == <<cr_cat, cr_tasks, cr_log>>

flaskVars == <<fl_rng, fl_requests>>

vars == <<storeVars, registryVars, scrapedVars, pipelineVars, mainVars, chunkerVars,
          scraperVars, uploadVars, dedupVars, crawlVars, flaskVars>>

-----------------------------------------------------------------------------
(* Bounds of the model *)

\* rows the database may hold in medical_documents before the model stops inserting
MaxDocRows == 3
\* DocumentEmbedder.chunk_text(chunk_size=1000, overlap=200), scaled down
DE_chunk_size == 8
DE_overlap == 2
\* ScrapedDocumentEmbedder.chunk_text(max_chunk_size=1000, overlap=100), scaled down
SC_max_chunk_size == 8
SC_overlap == 1
\* ScrapedDocumentEmbedder.embed_document: batch_size = 50, scaled down
SC_batch_size == 2
\* runs of embed_scraped_documents over the same input file
MaxRuns == 2
\* MedicalDocumentEmbedder.create_text_chunks(chunk_size=800, overlap=150), its
\* look-back of 200 characters and its minimum chunk length of 50, scaled down
MCP_chunk_size == 8
MCP_overlap == 2
MCP_lookback == 2
MCP_min_chunk_len == 1
\* process_documents_to_embeddings skips content shorter than 100, scaled down
MCP_min_content_len == 2
\* AutoScrapingEmbeddingPipeline: chunk_size = 512, overlap = 100, look-back 200,
\* scaled down
AUTO_chunk_size == 8
AUTO_overlap == 2
AUTO_lookback == 3
\* main embeds a source only when its stripped content is longer than 50
\* characters, scaled down
MAIN_min_content_len == 2
\* the texts, chunk sizes and overlaps the chunkers are called with
CK_MaxLen == 13
CK_SizeSteps == 3
CK_MaxOverlap == 13
\* iterations of a chunker loop the model follows
CK_MaxIterations == 16

-----------------------------------------------------------------------------
(* Program constants *)

\* self.embedding_dimension = 768
EmbeddingDimension == 768
\* split_text_into_chunks: chunk_size // 5 words per chunk
SPLIT_chars_per_word == 5

-----------------------------------------------------------------------------
(* Python string helpers *)

Min(a, b) == IF a <= b THEN a ELSE b
Max(a, b) == IF a >= b THEN a ELSE b

SentenceEnds == {".", "!", "?"}
Whitespace == {" "}

\* a Python slice index, clamped into 0..len (negative indices count from the end)
PyIndex(i, len) == IF i < 0 THEN Max(len + i, 0) ELSE Min(i, len)

\* text[a:b]
PySlice(text, a, b) ==
    LET lo == PyIndex(a, Len(text))
        hi == PyIndex(b, Len(text))
    IN  IF lo >= hi THEN <<>> ELSE SubSeq(text, lo + 1, hi)

RECURSIVE lstrip(_)
lstrip(text) ==
    IF text # <<>> /\ Head(text) \in Whitespace THEN lstrip(Tail(text)) ELSE text

RECURSIVE rstrip(_)
rstrip(text) ==
    IF text # <<>> /\ text[Len(text)] \in Whitespace
    THEN rstrip(SubSeq(text, 1, Len(text) - 1))
    ELSE text

\* text.strip()
strip(text) == rstrip(lstrip(text))

SetMin(S) == CHOOSE x \in S : \A y \in S : x <= y
SetMax(S) == CHOOSE x \in S : \A y \in S : x >= y

-----------------------------------------------------------------------------
(* embed_documents.py: DocumentEmbedder.chunk_text *)

\* the for loop of lines 427-430: the first i in range(n) whose character
\* text[end - i] ends a sentence moves the cut to end - i + 1; the test is
\* Python's substring test, which the empty slice passes as well
DE_sentence_cut(text, end, n) ==
    LET hits == {i \in 0..(n - 1) : PySlice(text, end - i, end - i + 1) \in
                                       {<<>>} \cup {<<c>> : c \in SentenceEnds}}
    IN  IF hits = {} THEN end ELSE end - SetMin(hits) + 1

\* the while loop of lines 421-438; fuel bounds the iterations, and
\* terminated = FALSE reports that the loop was still running when it ran out
RECURSIVE DE_chunk_loop(_, _, _, _, _, _)
DE_chunk_loop(text, chunk_size, overlap, start, chunks, fuel) ==
    IF ~(start < Len(text)) THEN [chunks |-> chunks, terminated |-> TRUE]
    ELSE IF fuel = 0 THEN [chunks |-> chunks, terminated |-> FALSE]
    ELSE
        LET end0 == start + chunk_size
            end == IF end0 < Len(text)
                   THEN DE_sentence_cut(text, end0, Min(overlap, chunk_size \div 4))
                   ELSE end0
            chunk == strip(PySlice(text, start, end))
            chunks2 == IF chunk # <<>> THEN Append(chunks, chunk) ELSE chunks
            start2 == end - overlap
        IN  IF start2 >= Len(text)
            THEN [chunks |-> chunks2, terminated |-> TRUE]
            ELSE DE_chunk_loop(text, chunk_size, overlap, start2, chunks2, fuel - 1)

DE_chunk_run(text, chunk_size, overlap) ==
    IF Len(text) <= chunk_size
    THEN [chunks |-> <<text>>, terminated |-> TRUE]
    ELSE DE_chunk_loop(text, chunk_size, overlap, 0, <<>>, Len(text) + 1)

DE_chunk_text(text) == DE_chunk_run(text, DE_chunk_size, DE_overlap).chunks

-----------------------------------------------------------------------------
(* embed_documents.py: sources, hashes, registry *)

\* hashlib.sha256(s.encode()).hexdigest()[:8] of a title
sha256_hex8(s) == "#" \o s

\* DocumentEmbedder.generate_content_hash: sha256(content).hexdigest()[:16]
generate_content_hash(content) == <<"sha256_16", content>>

\* f"{source.category}_{source.subcategory}_{sha256(title)[:8]}"
source_id(source) ==
    source.category \o "_" \o source.subcategory \o "_" \o sha256_hex8(source.title)

\* the sources of sources_to_embed.json the model draws from; the first two
\* differ in category and subcategory and yet join to the same source_id
Sources ==
    { [category |-> "heart_care", subcategory |-> "diet", title |-> "T1", type |-> "text"],
      [category |-> "heart", subcategory |-> "care_diet", title |-> "T1", type |-> "text"],
      [category |-> "heart", subcategory |-> "diet", title |-> "T2", type |-> "text"] }

\* document texts: one short (a single chunk), one long (several chunks)
Contents ==
    { <<"a", "a", ".", " ", "a">>,
      <<"a", " ", "a", "a", "a", "a", "a", ".", " ", "a", "a", "a", "a", "a", "a", "a", "a", ".">> }

NoSource == [category |-> "", subcategory |-> "", title |-> "", type |-> ""]
NoContent == <<>>

\* DocumentRegistry.is_document_embedded
is_document_embedded_ignoring_hash(docs, sid, content_hash) ==
    sid \in DOMAIN docs

is_document_embedded(docs, sid, content_hash) ==
    IF sid \in DOMAIN docs
    THEN docs[sid].content_hash = content_hash
    ELSE FALSE

\* a registry that keeps the entry a source_id already has (setdefault)
add_embedded_document_keep_first(docs, doc) ==
    [s \in DOMAIN docs \cup {doc.source_id} |->
        IF s \in DOMAIN docs THEN docs[s] ELSE doc]

\* DocumentRegistry.add_embedded_document, line 169
add_embedded_document(docs, doc) ==
    [s \in DOMAIN docs \cup {doc.source_id} |->
        IF s = doc.source_id THEN doc ELSE docs[s]]

\* DocumentRegistry.add_embedded_document, lines 170-171
add_statistics(stats, doc) ==
    [total_documents_embedded |-> stats.total_documents_embedded + 1,
     total_chunks_created |-> stats.total_chunks_created + doc.chunk_count]

-----------------------------------------------------------------------------
(* embed_documents.py: DocumentEmbedder.embed_document *)

\* what the environment does to one call: every step that talks to the
\* database or the model may raise
EmbedOutcomes == {"ok", "doc_insert_raises", "encode_raises", "chunk_insert_raises"}

\* doc_data of lines 456-473 with the id the database assigns
doc_row(id, source, content) ==
    [id |-> id, title |-> source.title, content |-> content,
     source_id |-> source_id(source),
     content_hash |-> generate_content_hash(content)]

\* embedding_data of lines 486-493
embedding_rows(doc_id, chunks) ==
    { [document_id |-> doc_id, chunk_index |-> i - 1, chunk_content |-> chunks[i]] :
        i \in 1..Len(chunks) }

\* EmbeddedDocument of lines 499-514
embedded_doc(source, content, chunks, doc_id) ==
    [source_id |-> source_id(source), title |-> source.title,
     content_hash |-> generate_content_hash(content),
     chunk_count |-> Len(chunks), document_id |-> doc_id]

\* the guard of line 448
embed_skips(source, content, force) ==
    ~force /\ is_document_embedded(embedded_documents, source_id(source),
                                   generate_content_hash(content))

\* lines 475-476: the document row is in the table once the insert returned
doc_inserted(outcome) == outcome # "doc_insert_raises"

\* line 496: one insert of all chunk rows
chunks_inserted(outcome) == outcome = "ok"

\* a registry update placed before the insert of the chunk rows
registry_updated_before_chunk_insert(outcome) == outcome # "doc_insert_raises"

\* lines 498-518 are reached only when nothing raised
registry_updated(outcome) == outcome = "ok"

embed_document(source, content, force, outcome) ==
    LET sid == source_id(source)
        chunks == DE_chunk_text(content)
        call == [source |-> source, content |-> content, force |-> force,
                 outcome |-> outcome]
    IN
    IF embed_skips(source, content, force)
    THEN /\ last' = [call |-> call, attempted |-> FALSE, ret |-> FALSE, doc_id |-> 0]
         /\ UNCHANGED <<medical_documents, document_embeddings, next_id,
                        embedded_documents, statistics, ok_calls, last_ok>>
         /\ UNCHANGED <<scrapedVars, pipelineVars, chunkerVars, scraperVars, uploadVars, dedupVars, crawlVars, flaskVars>>
    ELSE /\ next_id <= MaxDocRows
         /\ UNCHANGED <<scrapedVars, pipelineVars, chunkerVars, scraperVars, uploadVars, dedupVars, crawlVars, flaskVars>>
         /\ last' = [call |-> call, attempted |-> TRUE,
                     ret |-> registry_updated(outcome),
                     doc_id |-> IF doc_inserted(outcome) THEN next_id ELSE 0]
         /\ IF doc_inserted(outcome)
            THEN /\ medical_documents' =
                        medical_documents \cup {doc_row(next_id, source, content)}
                 /\ next_id' = next_id + 1
            ELSE UNCHANGED <<medical_documents, next_id>>
         /\ IF chunks_inserted(outcome)
            THEN document_embeddings' =
                        document_embeddings \cup embedding_rows(next_id, chunks)
            ELSE UNCHANGED document_embeddings
         /\ IF registry_updated(outcome)
            THEN LET doc == embedded_doc(source, content, chunks, next_id) IN
                 /\ embedded_documents' = add_embedded_document(embedded_documents, doc)
                 /\ statistics' = add_statistics(statistics, doc)
                 /\ ok_calls' = ok_calls \cup {<<source, content>>}
                 /\ last_ok' = [s \in DOMAIN last_ok \cup {sid} |->
                                    IF s = sid THEN content ELSE last_ok[s]]
            ELSE UNCHANGED <<embedded_documents, statistics, ok_calls, last_ok>>

EmbedDocument ==
    \E source \in Sources, content \in Contents, force \in BOOLEAN,
       outcome \in EmbedOutcomes :
        /\ embed_document(source, content, force, outcome)
        /\ UNCHANGED <<mainVars, chunkerVars, scraperVars, uploadVars, dedupVars, crawlVars, flaskVars>>


-----------------------------------------------------------------------------
(* embed_scraped_documents.py: ScrapedDocumentEmbedder *)

\* text.rfind(c, lo, hi) over the characters of cs: the largest index, or -1
rfind_any(text, cs, lo, hi) ==
    LET hits == {i \in PyIndex(lo, Len(text))..(PyIndex(hi, Len(text)) - 1) :
                    text[i + 1] \in cs}
    IN  IF hits = {} THEN -1 ELSE SetMax(hits)

\* the while loop of lines 63-83
RECURSIVE SC_chunk_loop(_, _, _, _, _, _)
SC_chunk_loop(text, max_chunk_size, overlap, start, chunks, fuel) ==
    IF ~(start < Len(text)) THEN [chunks |-> chunks, terminated |-> TRUE]
    ELSE IF fuel = 0 THEN [chunks |-> chunks, terminated |-> FALSE]
    ELSE
        LET end0 == start + max_chunk_size
            boundary == rfind_any(text, SentenceEnds, start, end0)
            end == IF end0 < Len(text) /\ boundary > start + max_chunk_size \div 2
                   THEN boundary + 1
                   ELSE end0
            chunk == strip(PySlice(text, start, end))
            chunks2 == IF chunk # <<>> THEN Append(chunks, chunk) ELSE chunks
            start2 == IF end < Len(text) THEN end - overlap ELSE end
        IN  SC_chunk_loop(text, max_chunk_size, overlap, start2, chunks2, fuel - 1)

SC_chunk_run(text, max_chunk_size, overlap) ==
    IF Len(text) <= max_chunk_size
    THEN [chunks |-> <<text>>, terminated |-> TRUE]
    ELSE SC_chunk_loop(text, max_chunk_size, overlap, 0, <<>>, Len(text) + 1)

SC_chunk_text(text) == SC_chunk_run(text, SC_max_chunk_size, SC_overlap).chunks

\* the documents of scripts/scraped_medical_documents.json: the first two carry the
\* same content under different titles, the third is long enough for several batches
ScrapedInput ==
    << [title |-> "T1", content |-> <<"a", "a", ".", " ", "a">>],
       [title |-> "T2", content |-> <<"a", "a", ".", " ", "a">>],
       [title |-> "T3", content |-> <<"a", " ", "a", "a", "a", "a", "a", ".", " ", "a", "a",
                                      "a", "a", "a", "a", "a", "a", ".">>] >>

\* ScrapedDocumentEmbedder.document_exists; a query that raises answers False
document_exists(rows, title, content_hash, query_raises) ==
    IF query_raises
    THEN FALSE
    ELSE \E d \in rows : d.title = title /\ d.content_hash = content_hash

\* what the environment does to one embed_document call after the existence check
ScrapedOutcomes == {"ok", "doc_insert_raises", "encode_raises", "batch_insert_raises"}

\* doc_data of lines 137-146 with the id the database assigns
SC_doc_row(id, document) ==
    [id |-> id, title |-> document.title, content |-> document.content,
     source_id |-> "",
     content_hash |-> generate_content_hash(document.content)]

\* range(0, len(embedding_data), batch_size): the number of batches
SC_batches(n) == (n + SC_batch_size - 1) \div SC_batch_size

\* lines 174-177: the batches inserted before the call returned or raised, when
\* the insert of batch number k (from 0) is the one that raises
SC_batches_inserted(outcome, k, n) ==
    CASE outcome = "ok" -> SC_batches(n)
      [] outcome = "batch_insert_raises" -> k
      [] OTHER -> 0

\* the chunk rows of the first b batches
SC_rows_inserted(doc_id, chunks, b) ==
    {r \in embedding_rows(doc_id, chunks) : r.chunk_index < b * SC_batch_size}

\* a variant that adds the chunks of a document to total_chunks as soon as they
\* are cut, whatever becomes of the document
SC_count_chunks_when_cut(counts, result, n) ==
    [embedded_count |-> counts.embedded_count + (IF result = "embedded" THEN 1 ELSE 0),
     skipped_count |-> counts.skipped_count + (IF result = "skipped" THEN 1 ELSE 0),
     failed_count |-> counts.failed_count + (IF result = "failed" THEN 1 ELSE 0),
     total_chunks |-> counts.total_chunks + (IF result = "skipped" THEN 0 ELSE n)]

\* lines 119, 179-180 and 187: the counters after one document
SC_count(counts, result, n) ==
    [embedded_count |-> counts.embedded_count + (IF result = "embedded" THEN 1 ELSE 0),
     skipped_count |-> counts.skipped_count + (IF result = "skipped" THEN 1 ELSE 0),
     failed_count |-> counts.failed_count + (IF result = "failed" THEN 1 ELSE 0),
     total_chunks |-> counts.total_chunks + (IF result = "embedded" THEN n ELSE 0)]

\* ScrapedDocumentEmbedder.embed_document on the document at sc_pos
SC_embed_document(query_raises, outcome, k) ==
    LET document == ScrapedInput[sc_pos]
        chunks == SC_chunk_text(document.content)
        exists == document_exists(medical_documents, document.title,
                                  generate_content_hash(document.content), query_raises)
        result == IF exists THEN "skipped"
                  ELSE IF outcome = "ok" THEN "embedded" ELSE "failed"
        row_in == ~exists /\ outcome # "doc_insert_raises"
    IN
    /\ outcome = "batch_insert_raises" => k < SC_batches(Len(chunks))
    /\ outcome # "batch_insert_raises" => k = 0
    /\ medical_documents' = IF row_in
                            THEN medical_documents \cup {SC_doc_row(next_id, document)}
                            ELSE medical_documents
    /\ next_id' = IF row_in THEN next_id + 1 ELSE next_id
    /\ document_embeddings' =
            IF row_in
            THEN document_embeddings \cup
                 SC_rows_inserted(next_id, chunks,
                                  SC_batches_inserted(outcome, k, Len(chunks)))
            ELSE document_embeddings
    /\ sc_counts' = SC_count(sc_counts, result, Len(chunks))
    /\ sc_result' = [sc_result EXCEPT ![sc_pos] = result]
    /\ sc_pos' = sc_pos + 1
    /\ UNCHANGED <<sc_pc, sc_run, sc_prev>>

\* one iteration of the loop of lines 220-222
ScrapedEmbedDocument ==
    /\ sc_pc = "running"
    /\ sc_pos <= Len(ScrapedInput)
    /\ \E query_raises \in BOOLEAN, outcome \in ScrapedOutcomes,
          k \in 0..Max(SC_batches(Len(SC_chunk_text(ScrapedInput[sc_pos].content))) - 1, 0) :
            SC_embed_document(query_raises, outcome, k)
    /\ UNCHANGED <<registryVars, pipelineVars, mainVars, chunkerVars, scraperVars, uploadVars, dedupVars, crawlVars, flaskVars>>

\* lines 231-264: the loop is over and the run reports its counters
ScrapedFinishRun ==
    /\ sc_pc = "running"
    /\ sc_pos > Len(ScrapedInput)
    /\ sc_pc' = "finished"
    /\ UNCHANGED <<sc_run, sc_pos, sc_counts, sc_result, sc_prev>>
    /\ UNCHANGED <<storeVars, registryVars, pipelineVars, mainVars, chunkerVars, scraperVars, uploadVars, dedupVars, crawlVars, flaskVars>>

\* main() again on the same file: a new ScrapedDocumentEmbedder, counters at zero
ScrapedStartRun ==
    /\ sc_pc = "finished"
    /\ sc_run < MaxRuns
    /\ sc_pc' = "running"
    /\ sc_run' = sc_run + 1
    /\ sc_pos' = 1
    /\ sc_counts' = [embedded_count |-> 0, skipped_count |-> 0, failed_count |-> 0,
                     total_chunks |-> 0]
    /\ sc_prev' = sc_result
    /\ sc_result' = [i \in DOMAIN ScrapedInput |-> "pending"]
    /\ UNCHANGED <<storeVars, registryVars, pipelineVars, mainVars, chunkerVars, scraperVars, uploadVars, dedupVars, crawlVars, flaskVars>>

-----------------------------------------------------------------------------
(* embed_and_upload_mcp.py: MedicalDocumentEmbedder
   auto_scrape_and_embed.py: AutoScrapingEmbeddingPipeline *)

\* the while loop of create_text_chunks (embed_and_upload_mcp.py lines 110-125;
\* auto_scrape_and_embed.py lines 261-278 is the same loop keeping every
\* non-empty chunk, which is min_len = 0)
RECURSIVE create_text_chunks_loop(_, _, _, _, _, _, _, _)
create_text_chunks_loop(text, chunk_size, overlap, lookback, min_len, start, chunks, fuel) ==
    IF ~(start < Len(text)) THEN [chunks |-> chunks, terminated |-> TRUE]
    ELSE IF fuel = 0 THEN [chunks |-> chunks, terminated |-> FALSE]
    ELSE
        LET end0 == start + chunk_size
            sentence_end == rfind_any(text, {"."}, start + chunk_size - lookback, end0)
            end == IF end0 < Len(text) /\ sentence_end > start
                   THEN sentence_end + 1
                   ELSE end0
            chunk == strip(PySlice(text, start, end))
            chunks2 == IF chunk # <<>> /\ Len(chunk) > min_len
                       THEN Append(chunks, chunk)
                       ELSE chunks
            start2 == end - overlap
        IN  IF start2 >= Len(text)
            THEN [chunks |-> chunks2, terminated |-> TRUE]
            ELSE create_text_chunks_loop(text, chunk_size, overlap, lookback, min_len,
                                         start2, chunks2, fuel - 1)

create_text_chunks_run(text, chunk_size, overlap, lookback, min_len) ==
    IF Len(text) <= chunk_size
    THEN [chunks |-> <<text>>, terminated |-> TRUE]
    ELSE create_text_chunks_loop(text, chunk_size, overlap, lookback, min_len,
                                 0, <<>>, Len(text) + 1)

\* MedicalDocumentEmbedder.create_text_chunks with its default arguments
MCP_create_text_chunks(text) ==
    create_text_chunks_run(text, MCP_chunk_size, MCP_overlap, MCP_lookback,
                           MCP_min_chunk_len).chunks

\* AutoScrapingEmbeddingPipeline.create_text_chunks(doc['content'], chunk_size, overlap)
AUTO_create_text_chunks(text) ==
    create_text_chunks_run(text, AUTO_chunk_size, AUTO_overlap, AUTO_lookback, 0).chunks

\* the documents of the scraped JSON file: a one-chunk document, a document of
\* several chunks, a document that is mostly whitespace, and one too short for
\* MedicalDocumentEmbedder
PipelineDocs ==
    << [title |-> "T1", url |-> "u1", source |-> "s",
        content |-> <<"a", "a", ".", " ", "a">>],
       [title |-> "T2", url |-> "u2", source |-> "s",
        content |-> <<"a", " ", "a", "a", "a", "a", "a", ".", " ", "a", "a", "a", "a",
                      "a", "a", "a", "a", ".">>],
       [title |-> "T3", url |-> "u3", source |-> "s",
        content |-> <<"a", " ", " ", " ", " ", " ", " ", " ", " ", " ">>],
       [title |-> "T4", url |-> "u4", source |-> "s",
        content |-> <<"a">>] >>

\* the dimensions a loaded model may have
ModelDims == {384, EmbeddingDimension}

\* MedicalDocumentEmbedder.generate_document_id: md5(url + title + source)
MCP_generate_document_id(doc) == "md5:" \o doc.url \o doc.title \o doc.source

\* AutoScrapingEmbeddingPipeline.generate_document_id: md5(f"{url}_{title}")
AUTO_generate_document_id(doc) == "md5:" \o doc.url \o "_" \o doc.title

generate_document_id(doc) ==
    IF pl_impl = "mcp" THEN MCP_generate_document_id(doc)
    ELSE AUTO_generate_document_id(doc)

\* setup_embedding_model, lines 70-76 (mcp) and 176-182 (auto): the dimension the
\* object holds after the verification
dimension_after_setup(expected, actual_dim) ==
    IF actual_dim # expected THEN actual_dim ELSE expected

\* setup_embedding_model; loading the model or the test encode may raise, which
\* the method logs and re-raises
SetupEmbeddingModel ==
    /\ pl_pc = "created"
    /\ \E raises \in BOOLEAN :
        IF raises
        THEN /\ pl_pc' = "aborted"
             /\ UNCHANGED pl_dim
        ELSE /\ pl_pc' = "model_ready"
             /\ pl_dim' = dimension_after_setup(pl_dim, pl_actual_dim)
    /\ UNCHANGED <<pl_impl, pl_actual_dim, pl_i, pl_embedding_data, pl_stats,
                   pl_upload, pl_log>>
    /\ UNCHANGED <<storeVars, registryVars, scrapedVars, mainVars, chunkerVars, scraperVars, uploadVars, dedupVars, crawlVars, flaskVars>>

\* embed_and_upload_mcp.py lines 149-152
MCP_insufficient(content) == content = <<>> \/ Len(content) < MCP_min_content_len

\* embed_and_upload_mcp.py lines 158-189: every chunk has its own try, so the
\* chunks emitted are those whose encode call does not raise
MCP_emitted(n, raising) == {i \in 0..(n - 1) : i \notin raising}

\* auto_scrape_and_embed.py lines 204-237: the only try is around the document,
\* so the chunks emitted are those before the first encode call that raises
AUTO_emitted(n, raising) == {i \in 0..(n - 1) : \A j \in raising : i < j}

\* the entries appended for one document, in chunk order
emitted_entries(doc, chunks, emitted, dim) ==
    LET all == [i \in 1..Len(chunks) |->
                    [document_id |-> generate_document_id(doc),
                     chunk_index |-> i - 1,
                     chunk_content |-> chunks[i],
                     chunk_count |-> Len(chunks),
                     dim |-> dim]]
        Keep(e) == e.chunk_index \in emitted
    IN  SelectSeq(all, Keep)

\* self.stats after one document of MedicalDocumentEmbedder (lines 155, 162,
\* 188, 191); a document with insufficient content changes nothing
MCP_stats(stats, skipped, n, raising) ==
    IF skipped THEN stats
    ELSE [stats EXCEPT
            !.chunks_created = @ + n,
            !.embeddings_generated = @ + Cardinality(MCP_emitted(n, raising)),
            !.processing_errors = @ + Cardinality(raising),
            !.documents_processed = @ + 1]

\* self.pipeline_stats after one document of AutoScrapingEmbeddingPipeline
\* (lines 232 and 236)
AUTO_stats(stats, n, raising) ==
    [stats EXCEPT
        !.total_chunks_created = @ + Cardinality(AUTO_emitted(n, raising)),
        !.failed_embeddings = @ + (IF raising # {} THEN 1 ELSE 0)]

\* one iteration of the document loop of process_documents_to_embeddings;
\* raising is the set of chunk indices whose encode call raises when it is made
ProcessDocument ==
    /\ pl_pc = "model_ready"
    /\ pl_i < Len(PipelineDocs)
    /\ LET doc == PipelineDocs[pl_i + 1]
           skipped == pl_impl = "mcp" /\ MCP_insufficient(doc.content)
           chunks == IF skipped THEN <<>>
                     ELSE IF pl_impl = "mcp" THEN MCP_create_text_chunks(doc.content)
                     ELSE AUTO_create_text_chunks(doc.content)
           n == Len(chunks)
       IN  \E raising \in SUBSET (0..(n - 1)) :
            LET emitted == IF pl_impl = "mcp" THEN MCP_emitted(n, raising)
                           ELSE AUTO_emitted(n, raising)
            IN
            /\ pl_embedding_data' =
                    pl_embedding_data \o emitted_entries(doc, chunks, emitted, pl_actual_dim)
            /\ pl_stats' = IF pl_impl = "mcp"
                           THEN MCP_stats(pl_stats, skipped, n, raising)
                           ELSE AUTO_stats(pl_stats, n, raising)
            /\ pl_log' = Append(pl_log, [chunked |-> ~skipped, n_chunks |-> n,
                                         raising |-> raising])
    /\ pl_i' = pl_i + 1
    /\ UNCHANGED <<pl_impl, pl_pc, pl_actual_dim, pl_dim, pl_upload>>
    /\ UNCHANGED <<storeVars, registryVars, scrapedVars, mainVars, chunkerVars, scraperVars, uploadVars, dedupVars, crawlVars, flaskVars>>

\* the end of process_documents_to_embeddings; auto_scrape_and_embed.py line 241
\* derives total_documents_embedded from the failures
FinishProcessing ==
    /\ pl_pc = "model_ready"
    /\ pl_i = Len(PipelineDocs)
    /\ pl_pc' = "processed"
    /\ pl_stats' = IF pl_impl = "auto"
                   THEN [pl_stats EXCEPT !.total_documents_embedded =
                            Len(PipelineDocs) - pl_stats.failed_embeddings]
                   ELSE pl_stats
    /\ UNCHANGED <<pl_impl, pl_actual_dim, pl_dim, pl_i, pl_embedding_data,
                   pl_upload, pl_log>>
    /\ UNCHANGED <<storeVars, registryVars, scrapedVars, mainVars, chunkerVars, scraperVars, uploadVars, dedupVars, crawlVars, flaskVars>>

\* MedicalDocumentEmbedder.prepare_for_mcp_upload (lines 225-276) and
\* AutoScrapingEmbeddingPipeline.upload_to_supabase_mcp (lines 304-326): one
\* document per document_id of the entries, one embedding per entry
PrepareUpload ==
    /\ pl_pc = "processed"
    /\ pl_pc' = "prepared"
    /\ pl_upload' =
        [documents |-> Cardinality({pl_embedding_data[k].document_id :
                                        k \in DOMAIN pl_embedding_data}),
         embeddings |-> Len(pl_embedding_data)]
    /\ UNCHANGED <<pl_impl, pl_actual_dim, pl_dim, pl_i, pl_embedding_data,
                   pl_stats, pl_log>>
    /\ UNCHANGED <<storeVars, registryVars, scrapedVars, mainVars, chunkerVars, scraperVars, uploadVars, dedupVars, crawlVars, flaskVars>>

-----------------------------------------------------------------------------
(* embed_documents.py: main *)

\* content is None, or a string
NoneContent == [some |-> FALSE, text |-> <<>>]
SomeContent(text) == [some |-> TRUE, text |-> text]

\* the sources of sources_to_embed.json: a page, a GitHub dataset and a file
MainSources ==
    << [category |-> "heart", subcategory |-> "diet", title |-> "T1", type |-> "url",
        github |-> FALSE],
       [category |-> "heart", subcategory |-> "diet", title |-> "T2", type |-> "dataset",
        github |-> TRUE],
       [category |-> "heart", subcategory |-> "diet", title |-> "T3", type |-> "file",
        github |-> FALSE] >>

\* what a request or a file may hold: the document texts, a text below the
\* minimum length and a text that has the minimum length once stripped
MainContents ==
    Contents \cup { <<"a">>, <<" ", "a", "a", " ">> }

\* the results of fetch_url_content / fetch_api_content: None when the request
\* raised, the extracted text otherwise
FetchResults == {NoneContent} \cup {SomeContent(t) : t \in MainContents}

\* Python truth of an Optional[str]
truthy(content) == content.some /\ content.text # <<>>

\* lines 589-597: the README of a GitHub dataset is requested on the main branch
\* and, when that gave nothing, on the master branch; every other source is
\* requested once; a file is not requested at all
fetch_requests(source, r1) ==
    IF source.type = "file" THEN <<>>
    ELSE IF source.type = "dataset" /\ source.github
    THEN IF truthy(r1) THEN <<"main">> ELSE <<"main", "master">>
    ELSE <<"url">>

\* lines 581-602: the content main holds for the source after the branch on its
\* type; r1 and r2 are the results of the first and the second request (for a
\* file, r1 is what the file holds, None when the file does not exist)
source_content(source, r1, r2) ==
    IF Len(fetch_requests(source, r1)) = 2 THEN r2 ELSE r1

\* a condition that lets every fetched content through
main_accepts_any(content) == content.some

\* line 604
main_accepts(content) ==
    truthy(content) /\ Len(strip(content.text)) > MAIN_min_content_len

\* registry.registry as save_registry writes it
registry_snapshot(docs, stats, sessions) ==
    [embedded_documents |-> docs, statistics |-> stats, embedding_sessions |-> sessions]

\* start_embedding_session, lines 174-185; -1 stands for a key not yet present
new_session(total_sources, clear_db, force) ==
    [status |-> "in_progress", total_sources |-> total_sources, clear_db |-> clear_db,
     force_reembed |-> force, sources_processed |-> 0, documents_embedded |-> -1,
     sources_skipped |-> -1]

\* end_embedding_session, lines 187-197, for the session main started
ended_session(session, processed, embedded, skipped) ==
    [session EXCEPT !.status = "completed", !.sources_processed = processed,
                    !.documents_embedded = embedded, !.sources_skipped = skipped]

ZeroStatistics == [total_documents_embedded |-> 0, total_chunks_created |-> 0]

\* a reset that leaves the entries of the registry in place
cleared_documents_kept(docs) == docs

\* line 550: registry.registry["embedded_documents"] = {}
cleared_documents(docs) == <<>>

\* main up to the start of the session, lines 543-573: --clear-db empties the two
\* tables row by row, then the registry, and saves it; clear_database re-raises
\* what a request raised, which ends the run with rows left in the tables
MainStart ==
    /\ mn_pc = "init"
    /\ \E clear_raises \in BOOLEAN :
        IF mn_clear_db /\ clear_raises
        THEN /\ mn_pc' = "crashed"
             /\ \E left_e \in SUBSET document_embeddings,
                   left_d \in SUBSET medical_documents :
                    /\ left_e # {} => left_d = medical_documents
                    /\ document_embeddings' = left_e
                    /\ medical_documents' = left_d
             /\ UNCHANGED <<next_id, registryVars, mn_sessions, mn_saved>>
        ELSE /\ mn_pc' = "loop"
             /\ IF mn_clear_db
                THEN /\ document_embeddings' = {}
                     /\ medical_documents' = {}
                     /\ embedded_documents' = cleared_documents(embedded_documents)
                     /\ statistics' = ZeroStatistics
                     /\ mn_saved' = registry_snapshot(embedded_documents', ZeroStatistics,
                                                      <<>>)
                     /\ mn_sessions' =
                            <<new_session(Len(MainSources), mn_clear_db, mn_force)>>
                ELSE /\ UNCHANGED <<document_embeddings, medical_documents,
                                    embedded_documents, statistics, mn_saved>>
                     /\ mn_sessions' =
                            Append(mn_sessions,
                                   new_session(Len(MainSources), mn_clear_db, mn_force))
             /\ UNCHANGED <<next_id, last, ok_calls, last_ok>>
    /\ UNCHANGED <<mn_force, mn_clear_db, mn_i, mn_processed, mn_embedded,
                   mn_fetches, mn_log>>
    /\ UNCHANGED <<scrapedVars, pipelineVars, chunkerVars, scraperVars, uploadVars, dedupVars, crawlVars, flaskVars>>

\* one iteration of the loop of lines 577-611; reading a file that exists may
\* raise, which nothing in main catches
MainProcessSource ==
    /\ mn_pc = "loop"
    /\ mn_i < Len(MainSources)
    /\ LET source == MainSources[mn_i + 1] IN
       \E r1, r2 \in FetchResults, read_raises \in BOOLEAN, outcome \in EmbedOutcomes :
        IF source.type = "file" /\ read_raises
        THEN /\ mn_pc' = "crashed"
             /\ UNCHANGED <<mn_i, mn_processed, mn_embedded, mn_fetches, mn_log>>
             /\ UNCHANGED <<storeVars, registryVars, scrapedVars, pipelineVars, chunkerVars, scraperVars, uploadVars, dedupVars, crawlVars, flaskVars>>
        ELSE LET content == source_content(source, r1, r2)
                 requests == fetch_requests(source, r1)
             IN
             /\ mn_pc' = "loop"
             /\ mn_i' = mn_i + 1
             /\ mn_fetches' = mn_fetches \o
                    [k \in 1..Len(requests) |->
                        [source |-> mn_i + 1, url |-> requests[k],
                         failed |-> ~(IF k = 1 THEN r1 ELSE r2).some]]
             /\ mn_log' = Append(mn_log, [content |-> content,
                                          called |-> main_accepts(content)])
             /\ IF main_accepts(content)
                THEN /\ embed_document(source, content.text, mn_force, outcome)
                     /\ mn_embedded' = mn_embedded + (IF last'.ret THEN 1 ELSE 0)
                     /\ mn_processed' = mn_processed + 1
                ELSE /\ UNCHANGED <<mn_processed, mn_embedded>>
                     /\ UNCHANGED <<storeVars, registryVars, scrapedVars, pipelineVars, chunkerVars, scraperVars, uploadVars, dedupVars, crawlVars, flaskVars>>
    /\ UNCHANGED <<mn_force, mn_clear_db, mn_sessions, mn_saved>>

\* lines 613-621: the session is ended and the registry saved
MainFinish ==
    /\ mn_pc = "loop"
    /\ mn_i = Len(MainSources)
    /\ mn_pc' = "done"
    /\ LET n == Len(mn_sessions)
           sessions == [mn_sessions EXCEPT ![n] =
                            ended_session(@, mn_processed, mn_embedded,
                                          Len(MainSources) - mn_processed)]
       IN  /\ mn_sessions' = sessions
           /\ mn_saved' = registry_snapshot(embedded_documents, statistics, sessions)
    /\ UNCHANGED <<mn_force, mn_clear_db, mn_i, mn_processed, mn_embedded,
                   mn_fetches, mn_log>>
    /\ UNCHANGED <<storeVars, registryVars, scrapedVars, pipelineVars, chunkerVars, scraperVars, uploadVars, dedupVars, crawlVars, flaskVars>>

-----------------------------------------------------------------------------
(* The chunkers, called on their own:
   embed_documents.py DocumentEmbedder.chunk_text and
   embed_scraped_documents.py ScrapedDocumentEmbedder.chunk_text, one loop
   iteration a step
   enhanced_medical_scraper.py EnhancedMedicalScraper.split_text_into_chunks *)

\* a text of n characters with a full stop at position dot and a space at
\* position space (0: none)
MarkedText(n, dot, space) ==
    [i \in 1..n |-> IF i = dot THEN "." ELSE IF i = space THEN " " ELSE "a"]

CK_Texts ==
    {MarkedText(n, dot, space) : n \in 0..CK_MaxLen, dot \in 0..CK_MaxLen,
                                 space \in 0..CK_MaxLen}

\* the chunk sizes: multiples of 4, as chunk_text searches chunk_size // 4 characters
CK_Sizes == {4 * k : k \in 1..CK_SizeSteps}

CK_Overlaps == 0..CK_MaxOverlap

\* DocumentEmbedder.chunk_text lines 422-430: the end of the window cut at start
DE_window_end(text, chunk_size, overlap, start) ==
    LET end == start + chunk_size
    IN  IF end < Len(text)
        THEN DE_sentence_cut(text, end, Min(overlap, chunk_size \div 4))
        ELSE end

\* lines 432-434: chunks after the window start..end
chunks_with(chunks, text, start, end) ==
    LET chunk == strip(PySlice(text, start, end))
    IN  IF chunk # <<>> THEN Append(chunks, chunk) ELSE chunks

\* ScrapedDocumentEmbedder.chunk_text lines 64-76: the end of the window cut at
\* start
SC_window_end(text, max_chunk_size, start) ==
    LET end == start + max_chunk_size
        boundary == rfind_any(text, SentenceEnds, start, end)
    IN  IF end < Len(text) /\ boundary > start + max_chunk_size \div 2
        THEN boundary + 1
        ELSE end

\* the window end of the chunker fn
window_end(fn, text, chunk_size, overlap, start) ==
    IF fn = "DE" THEN DE_window_end(text, chunk_size, overlap, start)
    ELSE SC_window_end(text, chunk_size, start)

\* a next start that leaves the character at end out of every window
next_start_past_end(fn, text, overlap, end) == end + 1

\* the next start: embed_documents.py line 436, embed_scraped_documents.py line 83
next_start(fn, text, overlap, end) ==
    IF fn = "DE" \/ end < Len(text) THEN end - overlap ELSE end

\* a variant that trims the short text and drops it when nothing is left,
\* as the loop does with its windows
short_text_chunks_stripped(text) ==
    IF strip(text) = <<>> THEN <<>> ELSE <<strip(text)>>

\* if len(text) <= chunk_size: return [text]
short_text_chunks(text) == <<text>>

\* chunk_text up to its loop: embed_documents.py lines 415-419,
\* embed_scraped_documents.py lines 57-61
ChunkTextCall ==
    /\ ck_fn \in {"DE", "SC"}
    /\ ck_pc = "called"
    /\ IF Len(ck_text) <= ck_chunk_size
       THEN /\ ck_pc' = "returned"
            /\ ck_chunks' = short_text_chunks(ck_text)
       ELSE /\ ck_pc' = "loop"
            /\ ck_chunks' = <<>>
    /\ UNCHANGED <<ck_fn, ck_text, ck_chunk_size, ck_overlap, ck_start, ck_windows>>
    /\ UNCHANGED <<storeVars, registryVars, scrapedVars, pipelineVars, mainVars, scraperVars, uploadVars, dedupVars, crawlVars, flaskVars>>

\* one iteration of the loop: embed_documents.py lines 421-438,
\* embed_scraped_documents.py lines 63-83
ChunkTextIterate ==
    /\ ck_fn \in {"DE", "SC"}
    /\ ck_pc = "loop"
    /\ Len(ck_windows) < CK_MaxIterations
    /\ LET end == window_end(ck_fn, ck_text, ck_chunk_size, ck_overlap, ck_start)
           start2 == next_start(ck_fn, ck_text, ck_overlap, end)
       IN  /\ ck_chunks' = chunks_with(ck_chunks, ck_text, ck_start, end)
           /\ ck_windows' = Append(ck_windows, [start |-> ck_start, end |-> end])
           /\ ck_start' = start2
           /\ ck_pc' = IF start2 >= Len(ck_text) THEN "returned" ELSE "loop"
    /\ UNCHANGED <<ck_fn, ck_text, ck_chunk_size, ck_overlap>>
    /\ UNCHANGED <<storeVars, registryVars, scrapedVars, pipelineVars, mainVars, scraperVars, uploadVars, dedupVars, crawlVars, flaskVars>>

\* text.split(): the maximal runs of non-whitespace characters
RECURSIVE split_words(_, _, _)
split_words(text, word, words) ==
    IF text = <<>>
    THEN IF word = <<>> THEN words ELSE Append(words, word)
    ELSE IF Head(text) \in Whitespace
    THEN split_words(Tail(text), <<>>, IF word = <<>> THEN words ELSE Append(words, word))
    ELSE split_words(Tail(text), Append(word, Head(text)), words)

\* ' '.join(words)
RECURSIVE join_words(_)
join_words(words) ==
    IF words = <<>> THEN <<>>
    ELSE IF Len(words) = 1 THEN words[1]
    ELSE words[1] \o <<" ">> \o join_words(Tail(words))

\* the for loop of lines 563-566 over range(i, n, step), step > 0
RECURSIVE split_loop(_, _, _, _, _)
split_loop(words, chunk_words, step, i, chunks) ==
    IF i >= Len(words) THEN chunks
    ELSE LET chunk == join_words(PySlice(words, i, i + chunk_words))
         IN  split_loop(words, chunk_words, step, i + step,
                        IF chunk # <<>> THEN Append(chunks, chunk) ELSE chunks)

\* EnhancedMedicalScraper.split_text_into_chunks; range() raises ValueError for
\* a step of zero and is empty for a negative one
split_text_into_chunks(text, chunk_size, chunk_overlap) ==
    LET words == split_words(text, <<>>, <<>>)
        chunk_words == chunk_size \div SPLIT_chars_per_word
        overlap_words == chunk_overlap \div SPLIT_chars_per_word
        step == chunk_words - overlap_words
    IN  IF step = 0 THEN [raised |-> TRUE, chunks |-> <<>>]
        ELSE IF step < 0 THEN [raised |-> FALSE, chunks |-> <<>>]
        ELSE [raised |-> FALSE,
              chunks |-> split_loop(words, chunk_words, step, 0, <<>>)]

SplitTextIntoChunks ==
    /\ ck_fn = "split"
    /\ ck_pc = "called"
    /\ LET r == split_text_into_chunks(ck_text, ck_chunk_size, ck_overlap)
       IN  /\ ck_pc' = IF r.raised THEN "raised" ELSE "returned"
           /\ ck_chunks' = r.chunks
    /\ UNCHANGED <<ck_fn, ck_text, ck_chunk_size, ck_overlap, ck_start, ck_windows>>
    /\ UNCHANGED <<storeVars, registryVars, scrapedVars, pipelineVars, mainVars, scraperVars, uploadVars, dedupVars, crawlVars, flaskVars>>

-----------------------------------------------------------------------------
(* embed_and_upload_mcp.py: MedicalDocumentEmbedder.create_text_chunks, and
   rapid_insertion.py: chunk_text, one loop iteration per step, with the
   window of every iteration recorded in ck_windows *)

\* the characters rapid_insertion.chunk_text searches for a full stop
\* (chunk[-100:] of 1000) and the margin of its cut (chunk_size - 200), scaled
RAPID_tail == 2
RAPID_margin == 4

\* create_text_chunks lines 111-117: the end of the window cut at start
MCP_window_end(text, chunk_size, start) ==
    LET end == start + chunk_size
        sentence_end == rfind_any(text, {"."}, start + chunk_size - MCP_lookback, end)
    IN  IF end < Len(text) /\ sentence_end > start THEN sentence_end + 1 ELSE end

\* create_text_chunks line 120: if chunk and len(chunk) > 50
MCP_keeps(chunk) == chunk # <<>> /\ Len(chunk) > MCP_min_chunk_len

\* create_text_chunks lines 104-108
CreateTextChunksCall ==
    /\ ck_fn = "MCP"
    /\ ck_pc = "called"
    /\ IF Len(ck_text) <= ck_chunk_size
       THEN /\ ck_pc' = "returned"
            /\ ck_chunks' = <<ck_text>>
       ELSE /\ ck_pc' = "loop"
            /\ ck_chunks' = <<>>
    /\ UNCHANGED <<ck_fn, ck_text, ck_chunk_size, ck_overlap, ck_start, ck_windows>>
    /\ UNCHANGED <<storeVars, registryVars, scrapedVars, pipelineVars, mainVars, scraperVars, uploadVars, dedupVars, crawlVars, flaskVars>>

\* create_text_chunks lines 110-125
CreateTextChunksIterate ==
    /\ ck_fn = "MCP"
    /\ ck_pc = "loop"
    /\ Len(ck_windows) < CK_MaxIterations
    /\ LET end == MCP_window_end(ck_text, ck_chunk_size, ck_start)
           chunk == strip(PySlice(ck_text, ck_start, end))
           start2 == end - ck_overlap
       IN  /\ ck_chunks' = IF MCP_keeps(chunk) THEN Append(ck_chunks, chunk) ELSE ck_chunks
           /\ ck_windows' = Append(ck_windows, [start |-> ck_start, end |-> end])
           /\ ck_start' = start2
           /\ ck_pc' = IF start2 >= Len(ck_text) THEN "returned" ELSE "loop"
    /\ UNCHANGED <<ck_fn, ck_text, ck_chunk_size, ck_overlap>>
    /\ UNCHANGED <<storeVars, registryVars, scrapedVars, pipelineVars, mainVars, scraperVars, uploadVars, dedupVars, crawlVars, flaskVars>>

\* chunk_text lines 44-46 of rapid_insertion.py: whether the window cut at
\* start is shortened to its last full stop
RAPID_cuts(text, chunk_size, start) ==
    LET end == start + chunk_size
        chunk == PySlice(text, start, end)
    IN  /\ end < Len(text)
        /\ \E k \in DOMAIN chunk : k > Len(chunk) - RAPID_tail /\ chunk[k] = "."
        /\ rfind_any(chunk, {"."}, 0, Len(chunk)) > chunk_size - RAPID_margin

\* lines 41-47: the text of that window
RAPID_window_text(text, chunk_size, start) ==
    LET chunk == PySlice(text, start, start + chunk_size)
    IN  IF RAPID_cuts(text, chunk_size, start)
        THEN PySlice(chunk, 0, rfind_any(chunk, {"."}, 0, Len(chunk)) + 1)
        ELSE chunk

\* lines 40-48: the end of that window
RAPID_window_end(text, chunk_size, start) ==
    IF RAPID_cuts(text, chunk_size, start)
    THEN start + Len(RAPID_window_text(text, chunk_size, start))
    ELSE start + chunk_size

\* chunk_text lines 34-38 of rapid_insertion.py
RapidChunkTextCall ==
    /\ ck_fn = "RAPID"
    /\ ck_pc = "called"
    /\ IF Len(ck_text) <= ck_chunk_size
       THEN /\ ck_pc' = "returned"
            /\ ck_chunks' = <<ck_text>>
       ELSE /\ ck_pc' = "loop"
            /\ ck_chunks' = <<>>
    /\ UNCHANGED <<ck_fn, ck_text, ck_chunk_size, ck_overlap, ck_start, ck_windows>>
    /\ UNCHANGED <<storeVars, registryVars, scrapedVars, pipelineVars, mainVars, scraperVars, uploadVars, dedupVars, crawlVars, flaskVars>>

\* chunk_text lines 39-54 of rapid_insertion.py
RapidChunkTextIterate ==
    /\ ck_fn = "RAPID"
    /\ ck_pc = "loop"
    /\ Len(ck_windows) < CK_MaxIterations
    /\ LET chunk == RAPID_window_text(ck_text, ck_chunk_size, ck_start)
           end == RAPID_window_end(ck_text, ck_chunk_size, ck_start)
           start2 == end - ck_overlap
       IN  /\ ck_chunks' = Append(ck_chunks, strip(chunk))
           /\ ck_windows' = Append(ck_windows, [start |-> ck_start, end |-> end])
           /\ ck_start' = start2
           /\ ck_pc' = IF end >= Len(ck_text) \/ ~(start2 < Len(ck_text))
                       THEN "returned" ELSE "loop"
    /\ UNCHANGED <<ck_fn, ck_text, ck_chunk_size, ck_overlap>>
    /\ UNCHANGED <<storeVars, registryVars, scrapedVars, pipelineVars, mainVars, scraperVars, uploadVars, dedupVars, crawlVars, flaskVars>>

-----------------------------------------------------------------------------
(* enhanced_medical_scraper.py: EnhancedMedicalScraper.scrape_all_sources *)

\* scraping_config and content_filters of the configuration file, and the
\* thresholds of the code (50 words in filter_documents, 100 characters in
\* parse_pubmed_xml), scaled
ES_chunk_size == 10
ES_chunk_overlap == 5
ES_content_min_length == 3
ES_min_word_count == 2
ES_max_word_count == 6
ES_filter_min_words == 2
ES_min_abstract_len == 4

\* content_filters['required_keywords'] and ['excluded_keywords']
ES_required_keywords == {<<"a">>, <<".">>}
ES_excluded_keywords == {<<".", ".">>}

\* keyword in content
contains(text, keyword) ==
    \E i \in 0..(Len(text) - Len(keyword)) : SubSeq(text, i + 1, i + Len(keyword)) = keyword

\* hashlib.md5(content.encode()).hexdigest()
md5_hexdigest(content) == <<"md5", content>>

\* doc.get('content_hash') of a document without the key
NoHash == <<>>

\* the texts pages and abstracts may have: "a. aa", "a. aa a.a aa.",
\* "aa a. aa a.", "aa" and "a.. aa"
ES_Texts ==
    { <<"a", ".", " ", "a", "a">>,
      <<"a", ".", " ", "a", "a", " ", "a", ".", "a", " ", "a", "a", ".">>,
      <<"a", "a", " ", "a", ".", " ", "a", "a", " ", "a", ".">>,
      <<"a", "a">>,
      <<"a", ".", ".", " ", "a", "a">> }

\* what the request of one URL and extract_content_from_html give: nothing
\* (a failed request, a status other than 200, no extractable content) or a text
ES_Pages == {[ok |-> FALSE, content |-> <<>>]} \cup {[ok |-> TRUE, content |-> t] : t \in ES_Texts}

\* the URLs of the configured endpoints, one of them listed twice
ES_Urls == <<"u1", "u2", "u1", "u3">>

\* the abstracts the PubMed requests may return
ES_ApiResults ==
    { <<>>,
      <<<<"a", ".", " ", "a", "a", " ", "a", ".", "a", " ", "a", "a", ".">>>>,
      <<<<"a", ".", " ", "a", "a">>,
        <<"a", "a", " ", "a", ".", " ", "a", "a", " ", "a", ".">>>>,
      <<<<"a", "a">>,
        <<"a", ".", " ", "a", "a">>,
        <<"a", ".", " ", "a", "a">>>> }

\* scrape_single_url lines 246-263: the document of a page
web_document(url, content) ==
    [title |-> "T_" \o url, content |-> content, url |-> url,
     content_hash |-> md5_hexdigest(content),
     chunk_index |-> -1, total_chunks |-> 0, is_chunked |-> FALSE]

\* parse_pubmed_xml lines 505-518: the document of an abstract, without content_hash
api_document(abstract_text) ==
    [title |-> "PubMed Article", content |-> abstract_text, url |-> "pmc",
     content_hash |-> NoHash,
     chunk_index |-> -1, total_chunks |-> 0, is_chunked |-> FALSE]

\* scrape_web_source lines 196-201 with scrape_single_url: the next endpoint
ScrapeSingleUrl ==
    /\ es_pc = "web"
    /\ es_i < Len(ES_Urls)
    /\ LET url == ES_Urls[es_i + 1]
       IN  IF url \in es_processed_urls
           THEN UNCHANGED <<es_documents, es_duplicate_hashes, es_processed_urls,
                            es_failed_urls>>
           ELSE \E page \in ES_Pages :
                LET accepted == /\ page.ok
                                /\ page.content # <<>>
                                /\ Len(strip(page.content)) >= ES_content_min_length
                    content_hash == md5_hexdigest(page.content)
                IN  /\ es_processed_urls' = es_processed_urls \cup {url}
                    /\ IF accepted /\ content_hash \notin es_duplicate_hashes
                       THEN /\ es_duplicate_hashes' = es_duplicate_hashes \cup {content_hash}
                            /\ es_documents' = Append(es_documents,
                                                      web_document(url, page.content))
                            /\ UNCHANGED es_failed_urls
                       ELSE IF accepted
                       THEN UNCHANGED <<es_documents, es_duplicate_hashes, es_failed_urls>>
                       ELSE /\ es_failed_urls' = Append(es_failed_urls, url)
                            /\ UNCHANGED <<es_documents, es_duplicate_hashes>>
    /\ es_i' = es_i + 1
    /\ UNCHANGED es_pc
    /\ UNCHANGED <<storeVars, registryVars, scrapedVars, pipelineVars, mainVars, chunkerVars, uploadVars, dedupVars, crawlVars, flaskVars>>

\* scrape_api_sources with parse_pubmed_xml: the abstracts of more than 100 characters
RECURSIVE api_documents(_)
api_documents(abstracts) ==
    IF abstracts = <<>> THEN <<>>
    ELSE IF Len(Head(abstracts)) > ES_min_abstract_len
    THEN <<api_document(Head(abstracts))>> \o api_documents(Tail(abstracts))
    ELSE api_documents(Tail(abstracts))

\* scrape_all_sources lines 105-107
ScrapeApiSources ==
    /\ es_pc = "web"
    /\ es_i = Len(ES_Urls)
    /\ \E abstracts \in ES_ApiResults :
            es_documents' = es_documents \o api_documents(abstracts)
    /\ es_pc' = "collected"
    /\ UNCHANGED <<es_i, es_duplicate_hashes, es_processed_urls, es_failed_urls>>
    /\ UNCHANGED <<storeVars, registryVars, scrapedVars, pipelineVars, mainVars, chunkerVars, uploadVars, dedupVars, crawlVars, flaskVars>>

\* a variant without the branch for documents that carry no content_hash
RECURSIVE remove_duplicates_hashed_only(_, _, _)
remove_duplicates_hashed_only(documents, seen_hashes, unique_docs) ==
    IF documents = <<>> THEN unique_docs
    ELSE
        LET doc == Head(documents)
        IN  IF doc.content_hash # NoHash /\ doc.content_hash \notin seen_hashes
            THEN remove_duplicates_hashed_only(Tail(documents),
                                               seen_hashes \cup {doc.content_hash},
                                               Append(unique_docs, doc))
            ELSE remove_duplicates_hashed_only(Tail(documents), seen_hashes, unique_docs)

\* remove_duplicates lines 663-675
RECURSIVE remove_duplicates_loop(_, _, _)
remove_duplicates_loop(documents, seen_hashes, unique_docs) ==
    IF documents = <<>> THEN unique_docs
    ELSE
        LET doc == Head(documents)
            content_hash == doc.content_hash
            doc_hash == md5_hexdigest(doc.content)
        IN  IF content_hash # NoHash /\ content_hash \notin seen_hashes
            THEN remove_duplicates_loop(Tail(documents), seen_hashes \cup {content_hash},
                                        Append(unique_docs, doc))
            ELSE IF content_hash = NoHash /\ doc_hash \notin seen_hashes
            THEN remove_duplicates_loop(Tail(documents), seen_hashes \cup {doc_hash},
                                        Append(unique_docs,
                                               [doc EXCEPT !.content_hash = doc_hash]))
            ELSE remove_duplicates_loop(Tail(documents), seen_hashes, unique_docs)

remove_duplicates(documents) == remove_duplicates_loop(documents, {}, <<>>)

\* scrape_all_sources line 111
RemoveDuplicates ==
    /\ es_pc = "collected"
    /\ es_documents' = remove_duplicates(es_documents)
    /\ es_pc' = "unique"
    /\ UNCHANGED <<es_i, es_duplicate_hashes, es_processed_urls, es_failed_urls>>
    /\ UNCHANGED <<storeVars, registryVars, scrapedVars, pipelineVars, mainVars, chunkerVars, uploadVars, dedupVars, crawlVars, flaskVars>>

word_count(content) == Len(split_words(content, <<>>, <<>>))

validate_medical_content(content) ==
    /\ Cardinality({k \in ES_required_keywords : contains(content, k)}) >= 2
    /\ ~ \E k \in ES_excluded_keywords : contains(content, k)
    /\ ES_min_word_count <= word_count(content)
    /\ word_count(content) <= ES_max_word_count

is_duplicate_content(doc, existing_docs) ==
    /\ doc.content_hash # NoHash
    /\ \E d \in DOMAIN existing_docs : existing_docs[d].content_hash = doc.content_hash

RECURSIVE filter_documents_loop(_, _)
filter_documents_loop(documents, filtered) ==
    IF documents = <<>> THEN filtered
    ELSE
        LET doc == Head(documents)
        IN  IF /\ validate_medical_content(doc.content)
               /\ word_count(doc.content) >= ES_filter_min_words
               /\ ~is_duplicate_content(doc, filtered)
            THEN filter_documents_loop(Tail(documents), Append(filtered, doc))
            ELSE filter_documents_loop(Tail(documents), filtered)

filter_documents(documents) == filter_documents_loop(documents, <<>>)

\* scrape_all_sources line 114
FilterDocuments ==
    /\ es_pc = "unique"
    /\ es_documents' = filter_documents(es_documents)
    /\ es_pc' = "filtered"
    /\ UNCHANGED <<es_i, es_duplicate_hashes, es_processed_urls, es_failed_urls>>
    /\ UNCHANGED <<storeVars, registryVars, scrapedVars, pipelineVars, mainVars, chunkerVars, uploadVars, dedupVars, crawlVars, flaskVars>>

\* chunk_large_documents lines 543-551: doc.copy() with the content, the
\* title and the metadata of chunk i replaced
chunk_doc(doc, chunks, i) ==
    [doc EXCEPT !.content = chunks[i + 1],
                !.title = doc.title \o " (Part " \o ToString(i + 1) \o ")",
                !.chunk_index = i,
                !.total_chunks = Len(chunks),
                !.is_chunked = TRUE]

\* lines 533-551: the documents one document becomes
chunked_docs_of(doc) ==
    IF Len(doc.content) <= ES_chunk_size
    THEN <<doc>>
    ELSE LET chunks == split_text_into_chunks(doc.content, ES_chunk_size,
                                              ES_chunk_overlap).chunks
         IN  [k \in 1..Len(chunks) |-> chunk_doc(doc, chunks, k - 1)]

RECURSIVE chunk_large_documents(_)
chunk_large_documents(documents) ==
    IF documents = <<>> THEN <<>>
    ELSE chunked_docs_of(Head(documents)) \o chunk_large_documents(Tail(documents))

\* split_text_into_chunks raises for some document of the list
chunking_raises(documents) ==
    \E d \in DOMAIN documents :
        /\ Len(documents[d].content) > ES_chunk_size
        /\ split_text_into_chunks(documents[d].content, ES_chunk_size,
                                  ES_chunk_overlap).raised

\* scrape_all_sources lines 117-135
ChunkLargeDocuments ==
    /\ es_pc = "filtered"
    /\ IF chunking_raises(es_documents)
       THEN /\ es_pc' = "raised"
            /\ UNCHANGED es_documents
       ELSE /\ es_pc' = "returned"
            /\ es_documents' = chunk_large_documents(es_documents)
    /\ UNCHANGED <<es_i, es_duplicate_hashes, es_processed_urls, es_failed_urls>>
    /\ UNCHANGED <<storeVars, registryVars, scrapedVars, pipelineVars, mainVars, chunkerVars, uploadVars, dedupVars, crawlVars, flaskVars>>

-----------------------------------------------------------------------------
(* scripts/database/smart_upload_remaining.py *)

\* the ids a document may have
SU_Ids == {"d1", "d2", "d3"}

\* the INSERT lines of the SQL file, each the id of its document or "short"
\* for a line that parses to fewer than 13 values; the second file lists an
\* id twice
SU_Files ==
    { <<"d1", "short", "d2", "d3">>,
      <<"d1", "d2", "d1">> }

\* what the query of load_existing_documents does: it returns its rows, it
\* reports no success, or the import or the call raises
SU_QueryOutcomes == {"ok", "no_success", "raises"}

\* what the INSERT of upload_document does
SU_InsertOutcomes == {"ok", "no_success", "raises"}

\* load_existing_documents lines 72-92
load_existing_documents(table, outcome) ==
    IF outcome = "ok" THEN {table[k] : k \in DOMAIN table} ELSE {}

\* main lines 177-205: the documents of the lines that parse and whose id is
\* not in existing_ids, in file order
RECURSIVE parse_documents(_, _)
parse_documents(lines, existing_ids) ==
    IF lines = <<>> THEN <<>>
    ELSE IF Head(lines) # "short" /\ Head(lines) \notin existing_ids
    THEN <<Head(lines)>> \o parse_documents(Tail(lines), existing_ids)
    ELSE parse_documents(Tail(lines), existing_ids)

\* main lines 157-212: the existing ids are loaded, the file is parsed and the
\* run ends when there is nothing to upload
SmartUploadStart ==
    /\ su_pc = "start"
    /\ \E outcome \in SU_QueryOutcomes :
        LET existing_ids == load_existing_documents(su_table, outcome)
            documents_to_upload == parse_documents(su_file, existing_ids)
        IN  /\ su_existing_ids' = existing_ids
            /\ su_documents_to_upload' = documents_to_upload
            /\ su_pc' = IF documents_to_upload = <<>> THEN "done" ELSE "uploading"
    /\ UNCHANGED <<su_file, su_unique, su_table, su_next, su_counts, su_calls>>
    /\ UNCHANGED <<storeVars, registryVars, scrapedVars, pipelineVars, mainVars, chunkerVars, scraperVars, dedupVars, crawlVars, flaskVars>>

\* main lines 221-225 with upload_document lines 94-135: the next document; an
\* INSERT that raises before it is sent leaves no trace, one that reaches a
\* table with a unique id cannot add a second row with the id
SmartUploadDocument ==
    /\ su_pc = "uploading"
    /\ su_next < Len(su_documents_to_upload)
    /\ LET id == su_documents_to_upload[su_next + 1]
       IN  \E outcome \in SU_InsertOutcomes, sent \in BOOLEAN :
            /\ outcome = "ok" => sent
            /\ (outcome = "ok" /\ su_unique) => \A k \in DOMAIN su_table : su_table[k] # id
            /\ su_table' = IF outcome = "ok" THEN Append(su_table, id) ELSE su_table
            /\ su_calls' = IF sent
                           THEN Append(su_calls,
                                       [id |-> id,
                                        present |-> \E k \in DOMAIN su_table : su_table[k] = id,
                                        inserted |-> outcome = "ok"])
                           ELSE su_calls
            /\ su_counts' = IF outcome = "ok"
                            THEN [su_counts EXCEPT !.uploaded_count = @ + 1]
                            ELSE [su_counts EXCEPT !.failed_count = @ + 1]
    /\ su_next' = su_next + 1
    /\ UNCHANGED <<su_pc, su_file, su_unique, su_existing_ids, su_documents_to_upload>>
    /\ UNCHANGED <<storeVars, registryVars, scrapedVars, pipelineVars, mainVars, chunkerVars, scraperVars, dedupVars, crawlVars, flaskVars>>

\* main lines 227-237: the summary
SmartUploadFinish ==
    /\ su_pc = "uploading"
    /\ su_next = Len(su_documents_to_upload)
    /\ su_pc' = "done"
    /\ UNCHANGED <<su_file, su_unique, su_table, su_existing_ids, su_documents_to_upload,
                   su_next, su_counts, su_calls>>
    /\ UNCHANGED <<storeVars, registryVars, scrapedVars, pipelineVars, mainVars, chunkerVars, scraperVars, dedupVars, crawlVars, flaskVars>>

\* the start of main over a file and a table
InitUpload(file, unique, table) ==
    /\ su_pc = "start"
    /\ su_file = file
    /\ su_unique = unique
    /\ su_table = table
    /\ su_existing_ids = {}
    /\ su_documents_to_upload = <<>>
    /\ su_next = 0
    /\ su_counts = [uploaded_count |-> 0, failed_count |-> 0]
    /\ su_calls = <<>>

IdleUpload == InitUpload(<<>>, TRUE, <<>>)

\* the tables the run may find: no row, or rows with distinct ids
SU_Tables == {<<>>, <<"d1">>, <<"d2">>, <<"d3", "d1">>, <<"d1", "d2", "d3">>}

-----------------------------------------------------------------------------
(* Duplicate removal of the three scrapers, called on its own:
   scripts/web-scraping/enhanced_medical_scraper.py remove_duplicates,
   scripts/enhanced_medical_scraper.py remove_duplicates and the loop at the
   end of scripts/medical_document_scraper.py scrape_all_sources *)

\* hashlib.sha256(doc['content'].encode()).hexdigest()
sha256_hexdigest(content) == <<"sha256", content>>

\* the loop of scripts/enhanced_medical_scraper.py lines 471-475 and of
\* scripts/medical_document_scraper.py lines 594-598
RECURSIVE sha_unique_loop(_, _, _)
sha_unique_loop(documents, seen_hashes, unique_documents) ==
    IF documents = <<>> THEN unique_documents
    ELSE
        LET doc == Head(documents)
            content_hash == sha256_hexdigest(doc.content)
        IN  IF content_hash \notin seen_hashes
            THEN sha_unique_loop(Tail(documents), seen_hashes \cup {content_hash},
                                 Append(unique_documents, doc))
            ELSE sha_unique_loop(Tail(documents), seen_hashes, unique_documents)

\* the longest list of documents the model passes
DD_MaxDocs == 4

\* the contents of the documents passed
DD_Contents == {<<"a", ".", " ", "a", "a">>, <<"a", "a", ".", " ", "a">>}

\* the document at a position of the list: scraped from a page, with the
\* content_hash scrape_single_url gave it, or parsed from an abstract, without
DD_document(position, content, hashed) ==
    [title |-> "T" \o ToString(position), content |-> content, url |-> "u",
     content_hash |-> IF hashed THEN md5_hexdigest(content) ELSE NoHash,
     chunk_index |-> -1, total_chunks |-> 0, is_chunked |-> FALSE]

\* the lists of documents passed
DD_Inputs ==
    UNION { {[i \in 1..n |-> DD_document(i, c[i], h[i])] :
                c \in [1..n -> DD_Contents], h \in [1..n -> BOOLEAN]} :
            n \in 0..DD_MaxDocs }

DD_Implementations == {"web-scraping", "enhanced", "medical"}

\* scripts/web-scraping/enhanced_medical_scraper.py remove_duplicates
RemoveDuplicatesCall ==
    /\ dd_impl = "web-scraping"
    /\ dd_pc = "called"
    /\ dd_unique' = remove_duplicates(dd_documents)
    /\ dd_pc' = "returned"
    /\ UNCHANGED <<dd_impl, dd_documents>>
    /\ UNCHANGED <<storeVars, registryVars, scrapedVars, pipelineVars, mainVars, chunkerVars, scraperVars, uploadVars, crawlVars, flaskVars>>

\* scripts/enhanced_medical_scraper.py remove_duplicates
EnhancedRemoveDuplicatesCall ==
    /\ dd_impl = "enhanced"
    /\ dd_pc = "called"
    /\ dd_unique' = sha_unique_loop(dd_documents, {}, <<>>)
    /\ dd_pc' = "returned"
    /\ UNCHANGED <<dd_impl, dd_documents>>
    /\ UNCHANGED <<storeVars, registryVars, scrapedVars, pipelineVars, mainVars, chunkerVars, scraperVars, uploadVars, crawlVars, flaskVars>>

\* scripts/medical_document_scraper.py scrape_all_sources lines 590-603
MedicalRemoveDuplicates ==
    /\ dd_impl = "medical"
    /\ dd_pc = "called"
    /\ dd_unique' = sha_unique_loop(dd_documents, {}, <<>>)
    /\ dd_pc' = "returned"
    /\ UNCHANGED <<dd_impl, dd_documents>>
    /\ UNCHANGED <<storeVars, registryVars, scrapedVars, pipelineVars, mainVars, chunkerVars, scraperVars, uploadVars, crawlVars, flaskVars>>

InitDedup(impl, documents) ==
    /\ dd_impl = impl
    /\ dd_pc = "called"
    /\ dd_documents = documents
    /\ dd_unique = <<>>

IdleDedup == InitDedup("web-scraping", <<>>)

-----------------------------------------------------------------------------
(* scripts/web-scraping/enhanced_medical_scraper.py: scrape_all_sources with
   its coroutines. A step runs one coroutine from one suspension point (await)
   to the next; the coroutines of a gather are run in any order. *)

\* batch_size = 10 of scrape_web_source, scaled
CR_batch_size == 2

\* self.medical_sources in the order of the configuration file: a category of
\* unknown priority, a category of medium priority whose 'sources' value
\* cannot be iterated, and a category of high priority whose two sources share
\* a URL; endpoints are given as urljoin(base_url, endpoint)
CR_Categories ==
    << [name |-> "c_other", priority |-> "urgent", broken |-> FALSE,
        sources |-> << [name |-> "S1", endpoints |-> <<"u1", "u4", "u5">>] >>],
       [name |-> "c_medium", priority |-> "medium", broken |-> TRUE,
        sources |-> <<>>],
       [name |-> "c_high", priority |-> "high", broken |-> FALSE,
        sources |-> << [name |-> "S2", endpoints |-> <<"u1", "u2">>],
                       [name |-> "S3", endpoints |-> <<"u2">>] >>] >>

\* what a request and extract_content_from_html give for a URL
CR_Pages ==
    { [ok |-> FALSE, content |-> <<>>],
      [ok |-> TRUE, content |-> <<"a", ".", " ", "a", "a">>],
      [ok |-> TRUE, content |-> <<"a", "a", ".", " ", "a">>] }

\* a key function that gives every category the same rank
priority_rank_flat(priority) == 0

\* the sort key of lines 84-85: {'high': 0, 'medium': 1, 'low': 2}.get(priority, 2)
priority_rank(priority) ==
    CASE priority = "high" -> 0
      [] priority = "medium" -> 1
      [] OTHER -> 2

\* sorted(self.medical_sources.items(), key=...): a stable sort by rank
sorted_categories(categories) ==
    SelectSeq(categories, LAMBDA c : priority_rank(c.priority) = 0) \o
    SelectSeq(categories, LAMBDA c : priority_rank(c.priority) = 1) \o
    SelectSeq(categories, LAMBDA c : priority_rank(c.priority) = 2)

\* a membership test that never finds the URL
url_is_processed_never(processed_urls, url) == FALSE

\* line 198: url not in self.processed_urls, negated
url_is_processed(processed_urls, url) == url \in processed_urls

\* a membership test that never finds the hash
hash_is_duplicate_never(duplicate_hashes, content_hash) == FALSE

\* line 238: content_hash in self.duplicate_hashes
hash_is_duplicate(duplicate_hashes, content_hash) == content_hash \in duplicate_hashes

\* an entry of the history
LogEntry(kind, cat, src, url) ==
    [kind |-> kind, cat |-> cat, src |-> src, url |-> url]

\* the category the loop of scrape_all_sources is at
CurrentCategory == sorted_categories(CR_Categories)[cr_cat + 1]

\* a scrape_web_source coroutine before its first step
new_source_task(source) ==
    [name |-> source.name, endpoints |-> source.endpoints, pc |-> "ready",
     batched |-> 0, tasks |-> <<>>, skipped |-> <<>>, documents |-> <<>>]

\* lines 196-201: the scrape_single_url coroutines created for a batch, with
\* processed_urls as the loop leaves it and the URLs it passed over
RECURSIVE batch_tasks(_, _, _, _)
batch_tasks(batch, processed_urls, tasks, skipped) ==
    IF batch = <<>>
    THEN [tasks |-> tasks, processed_urls |-> processed_urls, skipped |-> skipped]
    ELSE IF url_is_processed(processed_urls, Head(batch))
    THEN batch_tasks(Tail(batch), processed_urls, tasks, Append(skipped, Head(batch)))
    ELSE batch_tasks(Tail(batch), processed_urls \cup {Head(batch)},
                     Append(tasks, [url |-> Head(batch), pc |-> "created",
                                    got |-> <<>>, some |-> FALSE,
                                    result |-> web_document(Head(batch), <<>>)]),
                     skipped)

\* scrape_all_sources lines 89-104 with scrape_source_category lines 142-149:
\* the loop takes the next category and creates the coroutines of its sources;
\* a 'sources' value that cannot be iterated raises, which line 102 logs
StartCategory ==
    /\ es_pc = "categories"
    /\ cr_cat < Len(sorted_categories(CR_Categories))
    /\ LET category == CurrentCategory
           started == LogEntry("category", category.name, "", "")
       IN  IF category.broken
           THEN /\ cr_cat' = cr_cat + 1
                /\ cr_log' = Append(cr_log, started)
                /\ UNCHANGED <<es_pc, cr_tasks>>
           ELSE /\ cr_tasks' = [s \in 1..Len(category.sources) |->
                                    new_source_task(category.sources[s])]
                /\ cr_log' = Append(cr_log, started)
                /\ es_pc' = "gathering"
                /\ UNCHANGED cr_cat
    /\ UNCHANGED <<es_i, es_documents, es_duplicate_hashes, es_processed_urls, es_failed_urls>>
    /\ UNCHANGED <<storeVars, registryVars, scrapedVars, pipelineVars, mainVars, chunkerVars, uploadVars, dedupVars, flaskVars>>

\* scrape_web_source lines 191-204: the next batch of endpoints, up to the
\* await of the gather
StartBatch(s) ==
    /\ es_pc = "gathering"
    /\ cr_tasks[s].pc = "ready"
    /\ cr_tasks[s].batched < Len(cr_tasks[s].endpoints)
    /\ LET task == cr_tasks[s]
           stop == IF task.batched + CR_batch_size < Len(task.endpoints)
                   THEN task.batched + CR_batch_size ELSE Len(task.endpoints)
           batch == SubSeq(task.endpoints, task.batched + 1, stop)
           made == batch_tasks(batch, es_processed_urls, <<>>, <<>>)
       IN  /\ cr_tasks' = [cr_tasks EXCEPT ![s].pc = "waiting", ![s].batched = stop,
                                           ![s].tasks = made.tasks,
                                           ![s].skipped = @ \o made.skipped]
           /\ es_processed_urls' = made.processed_urls
    /\ UNCHANGED <<es_pc, es_i, es_documents, es_duplicate_hashes, es_failed_urls, cr_cat,
                   cr_log>>
    /\ UNCHANGED <<storeVars, registryVars, scrapedVars, pipelineVars, mainVars, chunkerVars, uploadVars, dedupVars, flaskVars>>

\* scrape_single_url lines 225-227: after the micro-delay the request is sent
SendRequest(s, k) ==
    /\ es_pc = "gathering"
    /\ cr_tasks[s].pc = "waiting"
    /\ k \in DOMAIN cr_tasks[s].tasks
    /\ cr_tasks[s].tasks[k].pc = "created"
    /\ cr_tasks' = [cr_tasks EXCEPT ![s].tasks[k].pc = "requested"]
    /\ cr_log' = Append(cr_log, LogEntry("request", CurrentCategory.name, cr_tasks[s].name,
                                         cr_tasks[s].tasks[k].url))
    /\ UNCHANGED <<es_pc, es_i, es_documents, es_duplicate_hashes, es_processed_urls,
                   es_failed_urls, cr_cat>>
    /\ UNCHANGED <<storeVars, registryVars, scrapedVars, pipelineVars, mainVars, chunkerVars, uploadVars, dedupVars, flaskVars>>

\* scrape_single_url lines 228-275: the response has arrived and its text has
\* been read; from there to the return nothing is awaited
ReceiveResponse(s, k) ==
    /\ es_pc = "gathering"
    /\ cr_tasks[s].pc = "waiting"
    /\ k \in DOMAIN cr_tasks[s].tasks
    /\ cr_tasks[s].tasks[k].pc = "requested"
    /\ \E page \in CR_Pages :
        LET url == cr_tasks[s].tasks[k].url
            accepted == /\ page.ok
                        /\ page.content # <<>>
                        /\ Len(strip(page.content)) >= ES_content_min_length
            content_hash == md5_hexdigest(page.content)
            returns == accepted /\ ~hash_is_duplicate(es_duplicate_hashes, content_hash)
        IN  /\ IF returns
               THEN /\ es_duplicate_hashes' = es_duplicate_hashes \cup {content_hash}
                    /\ cr_tasks' = [cr_tasks EXCEPT
                                        ![s].tasks[k].pc = "done",
                                        ![s].tasks[k].got = page.content,
                                        ![s].tasks[k].some = TRUE,
                                        ![s].tasks[k].result = web_document(url, page.content)]
                    /\ UNCHANGED es_failed_urls
               ELSE /\ cr_tasks' = [cr_tasks EXCEPT ![s].tasks[k].pc = "done",
                                                     ![s].tasks[k].got = page.content]
                    /\ es_failed_urls' = IF accepted THEN es_failed_urls
                                         ELSE Append(es_failed_urls, url)
                    /\ UNCHANGED es_duplicate_hashes
    /\ UNCHANGED <<es_pc, es_i, es_documents, es_processed_urls, cr_cat, cr_log>>
    /\ UNCHANGED <<storeVars, registryVars, scrapedVars, pipelineVars, mainVars, chunkerVars, uploadVars, dedupVars, flaskVars>>

\* the documents among the results of a gather
RECURSIVE batch_documents(_)
batch_documents(tasks) ==
    IF tasks = <<>> THEN <<>>
    ELSE IF Head(tasks).some
    THEN <<Head(tasks).result>> \o batch_documents(Tail(tasks))
    ELSE batch_documents(Tail(tasks))

\* scrape_web_source lines 204-213: the gather of the batch has returned; the
\* documents are kept and the coroutine sleeps before the next batch
CollectBatch(s) ==
    /\ es_pc = "gathering"
    /\ cr_tasks[s].pc = "waiting"
    /\ \A k \in DOMAIN cr_tasks[s].tasks : cr_tasks[s].tasks[k].pc = "done"
    /\ cr_tasks' = [cr_tasks EXCEPT
                        ![s].pc = "ready",
                        ![s].documents = @ \o batch_documents(cr_tasks[s].tasks),
                        ![s].tasks = <<>>]
    /\ UNCHANGED <<es_pc, es_i, es_documents, es_duplicate_hashes, es_processed_urls,
                   es_failed_urls, cr_cat, cr_log>>
    /\ UNCHANGED <<storeVars, registryVars, scrapedVars, pipelineVars, mainVars, chunkerVars, uploadVars, dedupVars, flaskVars>>

\* scrape_web_source lines 215-219: no endpoint is left, the documents are returned
FinishSource(s) ==
    /\ es_pc = "gathering"
    /\ cr_tasks[s].pc = "ready"
    /\ cr_tasks[s].batched = Len(cr_tasks[s].endpoints)
    /\ cr_tasks' = [cr_tasks EXCEPT ![s].pc = "done"]
    /\ cr_log' = Append(cr_log, LogEntry("source_done", CurrentCategory.name,
                                         cr_tasks[s].name, ""))
    /\ UNCHANGED <<es_pc, es_i, es_documents, es_duplicate_hashes, es_processed_urls,
                   es_failed_urls, cr_cat>>
    /\ UNCHANGED <<storeVars, registryVars, scrapedVars, pipelineVars, mainVars, chunkerVars, uploadVars, dedupVars, flaskVars>>

\* the documents of the sources of a category, in the order of the sources
RECURSIVE category_documents(_, _)
category_documents(tasks, s) ==
    IF s > Len(tasks) THEN <<>>
    ELSE tasks[s].documents \o category_documents(tasks, s + 1)

\* scrape_source_category lines 152-160 and scrape_all_sources lines 94-100:
\* the gather of the sources has returned
FinishCategory ==
    /\ es_pc = "gathering"
    /\ \A s \in DOMAIN cr_tasks : cr_tasks[s].pc = "done"
    /\ es_documents' = es_documents \o category_documents(cr_tasks, 1)
    /\ cr_tasks' = <<>>
    /\ cr_cat' = cr_cat + 1
    /\ es_pc' = "categories"
    /\ UNCHANGED <<es_i, es_duplicate_hashes, es_processed_urls, es_failed_urls, cr_log>>
    /\ UNCHANGED <<storeVars, registryVars, scrapedVars, pipelineVars, mainVars, chunkerVars, uploadVars, dedupVars, flaskVars>>

\* scrape_all_sources lines 105-108: the API sources, after the loop
ScrapeApiSourcesLast ==
    /\ es_pc = "categories"
    /\ cr_cat = Len(sorted_categories(CR_Categories))
    /\ \E abstracts \in ES_ApiResults :
            es_documents' = es_documents \o api_documents(abstracts)
    /\ cr_log' = Append(cr_log, LogEntry("api", "", "", ""))
    /\ es_pc' = "collected"
    /\ UNCHANGED <<es_i, es_duplicate_hashes, es_processed_urls, es_failed_urls,
                   cr_cat, cr_tasks>>
    /\ UNCHANGED <<storeVars, registryVars, scrapedVars, pipelineVars, mainVars, chunkerVars, uploadVars, dedupVars, flaskVars>>

InitCrawl ==
    /\ cr_cat = 0
    /\ cr_tasks = <<>>
    /\ cr_log = <<>>

IdleCrawl == InitCrawl

-----------------------------------------------------------------------------
(* simple_flask.py: the /embed endpoint. app.run serves each request on a
   thread of its own; a step runs one thread from one call of numpy's global
   generator to the next. *)

\* the /embed requests a run receives
FL_MaxRequests == 3

\* the "text" fields of the requests; the empty one is rejected
FL_Texts == {"", "fever", "cough"}

\* hash(text) % 2**32: one value per text within a process
seed_of(text) == <<"hash32", text>>

\* the generator before any seeding
FL_Unseeded == [seed |-> <<"os">>, drawn |-> 0]

\* np.random.rand(768).tolist(): the next 768 values of the stream of the
\* generator's seed
rand_768(rng) == [seed |-> rng.seed, block |-> rng.drawn, dimensions |-> 768]

\* a request that has drawn nothing
NoEmbedding == [seed |-> <<>>, block |-> 0, dimensions |-> 0]

InitFlask ==
    /\ fl_rng = FL_Unseeded
    /\ fl_requests = <<>>

\* lines 24-29: a request arrives; without text it is answered with 400
ReceiveEmbed(text) ==
    /\ Len(fl_requests) < FL_MaxRequests
    /\ fl_requests' = Append(fl_requests,
                             [text |-> text,
                              pc |-> IF text = "" THEN "rejected" ELSE "received",
                              embedding |-> NoEmbedding])
    /\ UNCHANGED fl_rng
    /\ UNCHANGED <<storeVars, registryVars, scrapedVars, pipelineVars, mainVars, chunkerVars, scraperVars, uploadVars, dedupVars, crawlVars>>

\* line 35: np.random.seed(hash(text) % 2**32)
SeedGenerator(r) ==
    /\ fl_requests[r].pc = "received"
    /\ fl_rng' = [seed |-> seed_of(fl_requests[r].text), drawn |-> 0]
    /\ fl_requests' = [fl_requests EXCEPT ![r].pc = "seeded"]
    /\ UNCHANGED <<storeVars, registryVars, scrapedVars, pipelineVars, mainVars, chunkerVars, scraperVars, uploadVars, dedupVars, crawlVars>>

\* lines 36-39: embedding = np.random.rand(768).tolist(), returned as JSON
DrawEmbedding(r) ==
    /\ fl_requests[r].pc = "seeded"
    /\ fl_requests' = [fl_requests EXCEPT ![r].pc = "answered",
                                          ![r].embedding = rand_768(fl_rng)]
    /\ fl_rng' = [fl_rng EXCEPT !.drawn = @ + 1]
    /\ UNCHANGED <<storeVars, registryVars, scrapedVars, pipelineVars, mainVars, chunkerVars, scraperVars, uploadVars, dedupVars, crawlVars>>

-----------------------------------------------------------------------------

InitStore ==
    /\ medical_documents = {}
    /\ document_embeddings = {}
    /\ next_id = 1

InitRegistry ==
    /\ embedded_documents = <<>>
    /\ statistics = [total_documents_embedded |-> 0, total_chunks_created |-> 0]
    /\ last = [call |-> [source |-> NoSource, content |-> NoContent, force |-> FALSE,
                         outcome |-> "ok"],
               attempted |-> FALSE, ret |-> FALSE, doc_id |-> 0]
    /\ ok_calls = {}
    /\ last_ok = <<>>

InitScraped ==
    /\ sc_pc = "running"
    /\ sc_run = 1
    /\ sc_pos = 1
    /\ sc_counts = [embedded_count |-> 0, skipped_count |-> 0, failed_count |-> 0,
                    total_chunks |-> 0]
    /\ sc_result = [i \in DOMAIN ScrapedInput |-> "pending"]
    /\ sc_prev = [i \in DOMAIN ScrapedInput |-> "none"]

\* the pipeline object after __init__, for a script and an installed model
InitPipeline(impl, actual_dim) ==
    /\ pl_impl = impl
    /\ pl_pc = "created"
    /\ pl_actual_dim = actual_dim
    /\ pl_dim = EmbeddingDimension
    /\ pl_i = 0
    /\ pl_embedding_data = <<>>
    /\ pl_stats = [documents_processed |-> 0, chunks_created |-> 0,
                   embeddings_generated |-> 0, processing_errors |-> 0,
                   total_chunks_created |-> 0, failed_embeddings |-> 0,
                   total_documents_embedded |-> 0]
    /\ pl_upload = [documents |-> 0, embeddings |-> 0]
    /\ pl_log = <<>>

\* main before its first statement, for the two command line flags
InitMain(force, clear_db) ==
    /\ mn_pc = "init"
    /\ mn_force = force
    /\ mn_clear_db = clear_db
    /\ mn_i = 0
    /\ mn_processed = 0
    /\ mn_embedded = 0
    /\ mn_sessions = <<>>
    /\ mn_saved = registry_snapshot(<<>>, ZeroStatistics, <<>>)
    /\ mn_fetches = <<>>
    /\ mn_log = <<>>

\* the store and the registry a finished run without --clear-db left behind,
\* in which the first source was embedded with the content and the two other
\* sources were skipped
InitAfterRun(content) ==
    LET source == MainSources[1]
        chunks == DE_chunk_text(content)
        doc == embedded_doc(source, content, chunks, 1)
        docs == add_embedded_document(<<>>, doc)
        stats == add_statistics(ZeroStatistics, doc)
        sessions == <<ended_session(new_session(Len(MainSources), FALSE, FALSE),
                                    1, 1, Len(MainSources) - 1)>>
    IN  /\ medical_documents = {doc_row(1, source, content)}
        /\ document_embeddings = embedding_rows(1, chunks)
        /\ next_id = 2
        /\ embedded_documents = docs
        /\ statistics = stats
        /\ last = [call |-> [source |-> source, content |-> content, force |-> FALSE,
                             outcome |-> "ok"],
                   attempted |-> TRUE, ret |-> TRUE, doc_id |-> 1]
        /\ ok_calls = {<<source, content>>}
        /\ last_ok = [s \in {source_id(source)} |-> content]
        /\ mn_pc = "init"
        /\ mn_i = 0
        /\ mn_processed = 0
        /\ mn_embedded = 0
        /\ mn_sessions = sessions
        /\ mn_saved = registry_snapshot(docs, stats, sessions)
        /\ mn_fetches = <<>>
        /\ mn_log = <<>>

\* a chunker called with a text and a configuration
InitChunker(fn, text, chunk_size, overlap) ==
    /\ ck_fn = fn
    /\ ck_text = text
    /\ ck_chunk_size = chunk_size
    /\ ck_overlap = overlap
    /\ ck_pc = "called"
    /\ ck_start = 0
    /\ ck_chunks = <<>>
    /\ ck_windows = <<>>

InitScraperAt(pc) ==
    /\ es_pc = pc
    /\ es_i = 0
    /\ es_documents = <<>>
    /\ es_duplicate_hashes = {}
    /\ es_processed_urls = {}
    /\ es_failed_urls = <<>>

InitScraper == InitScraperAt("web")

IdleChunker == InitChunker("DE", <<>>, DE_chunk_size, DE_overlap)

Init ==
    /\ InitStore
    /\ InitRegistry
    /\ InitScraped
    /\ InitPipeline("mcp", EmbeddingDimension)
    /\ InitMain(FALSE, FALSE)
    /\ IdleChunker
    /\ InitScraper
    /\ IdleUpload
    /\ IdleDedup
    /\ IdleCrawl
    /\ InitFlask

Next == EmbedDocument

Spec == Init /\ [][Next]_vars

NextScraped ==
    \/ ScrapedEmbedDocument
    \/ ScrapedFinishRun
    \/ ScrapedStartRun

SpecScraped == Init /\ [][NextScraped]_vars

\* either script, with a model of either dimension installed
InitAnyPipeline ==
    /\ InitStore
    /\ InitRegistry
    /\ InitScraped
    /\ \E impl \in {"mcp", "auto"}, actual_dim \in ModelDims :
            InitPipeline(impl, actual_dim)
    /\ InitMain(FALSE, FALSE)
    /\ IdleChunker
    /\ InitScraper
    /\ IdleUpload
    /\ IdleDedup
    /\ IdleCrawl
    /\ InitFlask

NextPipeline ==
    \/ SetupEmbeddingModel
    \/ ProcessDocument
    \/ FinishProcessing
    \/ PrepareUpload

SpecPipeline == InitAnyPipeline /\ [][NextPipeline]_vars

\* one run of main, with any combination of --force and --clear-db
InitAnyMain ==
    /\ InitStore
    /\ InitRegistry
    /\ InitScraped
    /\ InitPipeline("mcp", EmbeddingDimension)
    /\ \E force \in BOOLEAN, clear_db \in BOOLEAN : InitMain(force, clear_db)
    /\ IdleChunker
    /\ InitScraper
    /\ IdleUpload
    /\ IdleDedup
    /\ IdleCrawl
    /\ InitFlask

NextMain ==
    \/ MainStart
    \/ MainProcessSource
    \/ MainFinish

SpecMain == InitAnyMain /\ [][NextMain]_vars

\* a run of main after an earlier run, with any combination of --force and
\* --clear-db
InitSecondMain ==
    /\ \E content \in Contents : InitAfterRun(content)
    /\ mn_force \in BOOLEAN
    /\ mn_clear_db \in BOOLEAN
    /\ InitScraped
    /\ InitPipeline("mcp", EmbeddingDimension)
    /\ IdleChunker
    /\ InitScraper
    /\ IdleUpload
    /\ IdleDedup
    /\ IdleCrawl
    /\ InitFlask

SpecSecondMain == InitSecondMain /\ [][NextMain]_vars

\* the chunkers that take their configuration as arguments or attributes
CK_Functions == {"DE", "SC", "split", "MCP", "RAPID"}

InitAnyChunker ==
    /\ InitStore
    /\ InitRegistry
    /\ InitScraped
    /\ InitPipeline("mcp", EmbeddingDimension)
    /\ InitMain(FALSE, FALSE)
    /\ \E fn \in CK_Functions, text \in CK_Texts, chunk_size \in CK_Sizes,
          overlap \in CK_Overlaps :
            InitChunker(fn, text, chunk_size, overlap)
    /\ InitScraper
    /\ IdleUpload
    /\ IdleDedup
    /\ IdleCrawl
    /\ InitFlask

NextChunker ==
    \/ ChunkTextCall
    \/ ChunkTextIterate
    \/ SplitTextIntoChunks
    \/ CreateTextChunksCall
    \/ CreateTextChunksIterate
    \/ RapidChunkTextCall
    \/ RapidChunkTextIterate

SpecChunker == InitAnyChunker /\ [][NextChunker]_vars

\* one run of scrape_all_sources
NextScraper ==
    \/ ScrapeSingleUrl
    \/ ScrapeApiSources
    \/ RemoveDuplicates
    \/ FilterDocuments
    \/ ChunkLargeDocuments

SpecScraper == Init /\ [][NextScraper]_vars

\* one run of smart_upload_remaining.main
InitAnyUpload ==
    /\ InitStore
    /\ InitRegistry
    /\ InitScraped
    /\ InitPipeline("mcp", EmbeddingDimension)
    /\ InitMain(FALSE, FALSE)
    /\ IdleChunker
    /\ InitScraper
    /\ \E file \in SU_Files, unique \in BOOLEAN, table \in SU_Tables :
            InitUpload(file, unique, table)
    /\ IdleDedup
    /\ IdleCrawl
    /\ InitFlask

NextUpload ==
    \/ SmartUploadStart
    \/ SmartUploadDocument
    \/ SmartUploadFinish

SpecUpload == InitAnyUpload /\ [][NextUpload]_vars

\* duplicate removal called on any list of documents
InitAnyDedup ==
    /\ InitStore
    /\ InitRegistry
    /\ InitScraped
    /\ InitPipeline("mcp", EmbeddingDimension)
    /\ InitMain(FALSE, FALSE)
    /\ IdleChunker
    /\ InitScraper
    /\ IdleUpload
    /\ \E impl \in DD_Implementations, documents \in DD_Inputs : InitDedup(impl, documents)
    /\ IdleCrawl
    /\ InitFlask

NextDedup ==
    \/ RemoveDuplicatesCall
    \/ EnhancedRemoveDuplicatesCall
    \/ MedicalRemoveDuplicates

SpecDedup == InitAnyDedup /\ [][NextDedup]_vars

InitCrawlRun ==
    /\ InitStore
    /\ InitRegistry
    /\ InitScraped
    /\ InitPipeline("mcp", EmbeddingDimension)
    /\ InitMain(FALSE, FALSE)
    /\ IdleChunker
    /\ InitScraperAt("categories")
    /\ IdleUpload
    /\ IdleDedup
    /\ InitCrawl
    /\ InitFlask

NextCrawl ==
    \/ StartCategory
    \/ \E s \in DOMAIN cr_tasks : StartBatch(s)
    \/ \E s \in DOMAIN cr_tasks : \E k \in DOMAIN cr_tasks[s].tasks : SendRequest(s, k)
    \/ \E s \in DOMAIN cr_tasks : \E k \in DOMAIN cr_tasks[s].tasks : ReceiveResponse(s, k)
    \/ \E s \in DOMAIN cr_tasks : CollectBatch(s)
    \/ \E s \in DOMAIN cr_tasks : FinishSource(s)
    \/ FinishCategory
    \/ ScrapeApiSourcesLast
    \/ RemoveDuplicates
    \/ FilterDocuments
    \/ ChunkLargeDocuments

SpecCrawl == InitCrawlRun /\ [][NextCrawl]_vars

NextFlask ==
    \/ \E text \in FL_Texts : ReceiveEmbed(text)
    \/ \E r \in DOMAIN fl_requests : SeedGenerator(r)
    \/ \E r \in DOMAIN fl_requests : DrawEmbedding(r)

SpecFlask == Init /\ [][NextFlask]_vars

-----------------------------------------------------------------------------
(* Properties of DocumentEmbedder.embed_document, checked under Spec *)

\* the call a step makes, read in the step's second state
CallSid == source_id(last'.call.source)
CallHash == generate_content_hash(last'.call.content)
StoreUnchanged ==
    /\ medical_documents' = medical_documents
    /\ document_embeddings' = document_embeddings
RegistryUnchanged ==
    /\ embedded_documents' = embedded_documents
    /\ statistics' = statistics
RowsOf(doc_id) == {r \in document_embeddings : r.document_id = doc_id}

\* C1 as stated: once embed_document(source, content, force=False) has returned
\* True, every later call with the same source, the same content and force=False
\* returns False, inserts no row and leaves the registry unchanged.
C1_EveryLaterCallSkips ==
    [][ (<<last'.call.source, last'.call.content>> \in ok_calls /\ ~last'.call.force)
            => (~last'.ret /\ StoreUnchanged /\ RegistryUnchanged) ]_vars

\* C1 amended: a call with force=False whose content is the content of the latest
\* successful ingestion under the same source_id returns False without attempting
\* an insert, inserts no row and leaves registry entries and statistics unchanged.
C1_IdempotentWhileLatest ==
    [][ (/\ ~last'.call.force
         /\ CallSid \in DOMAIN last_ok
         /\ last_ok[CallSid] = last'.call.content)
            => (/\ ~last'.ret
                /\ ~last'.attempted
                /\ StoreUnchanged
                /\ RegistryUnchanged) ]_vars

\* the same source and content were ingested and a second, unforced call was skipped
C1_Witness ==
    /\ <<last.call.source, last.call.content>> \in ok_calls
    /\ ~last.call.force
    /\ ~last.attempted
    /\ ~last.ret
    /\ source_id(last.call.source) \in DOMAIN last_ok
    /\ last_ok[source_id(last.call.source)] = last.call.content

\* C2: when a source that is already recorded is ingested again (changed content,
\* or force), the document row and the chunk rows of the recorded ingestion are
\* gone after the call and the store holds only the newest rows of that source_id.
C2_OldRowsReplaced ==
    [][ (last'.attempted /\ last'.ret /\ CallSid \in DOMAIN embedded_documents)
            => LET old == embedded_documents[CallSid].document_id IN
               /\ \A d \in medical_documents' : d.id # old
               /\ \A r \in document_embeddings' : r.document_id # old
               /\ \A d \in medical_documents' :
                     d.source_id = CallSid => d.id = last'.doc_id ]_vars

\* C3: a medical_documents row exists only together with the complete set of its
\* document_embeddings rows, in every state the store is left in by a call.
C3_AllOrNothing ==
    \A d \in medical_documents :
        RowsOf(d.id) = embedding_rows(d.id, DE_chunk_text(d.content))

\* C4: every registry entry names a stored document row with the entry's content
\* hash, and exactly chunk_count chunk rows exist for that row.
C4_RecordedIsComplete ==
    \A sid \in DOMAIN embedded_documents :
        LET e == embedded_documents[sid] IN
        /\ \E d \in medical_documents :
              d.id = e.document_id /\ d.content_hash = e.content_hash
        /\ Cardinality(RowsOf(e.document_id)) = e.chunk_count

\* a recorded document next to a document row whose chunk insert failed, right
\* after a failing call
C4_Witness ==
    /\ DOMAIN embedded_documents # {}
    /\ \E d \in medical_documents : RowsOf(d.id) = {}
    /\ last.attempted /\ ~last.ret
    /\ \E sid \in DOMAIN embedded_documents : embedded_documents[sid].chunk_count > 1

\* C6: is_document_embedded(source_id, hash) holds iff the registry has an entry
\* for source_id whose content_hash is hash; embed_document returns False before
\* any insert iff force is false and that holds; otherwise the insert is attempted.
C6_SkipDecision ==
    [][ LET recorded == /\ CallSid \in DOMAIN embedded_documents
                        /\ embedded_documents[CallSid].content_hash = CallHash
        IN
        /\ is_document_embedded(embedded_documents, CallSid, CallHash) <=> recorded
        /\ ~last'.attempted <=> (~last'.call.force /\ recorded)
        /\ ~last'.attempted => (~last'.ret /\ StoreUnchanged /\ RegistryUnchanged)
        /\ last'.attempted =>
              \/ last'.call.outcome = "doc_insert_raises"
              \/ \E d \in medical_documents' \ medical_documents :
                    d.source_id = CallSid /\ d.content_hash = CallHash ]_vars

\* a forced call ingested again a source whose recorded content had not changed
C6_Witness ==
    /\ last.call.force /\ last.attempted /\ last.ret
    /\ Cardinality({d \in medical_documents :
                       /\ d.source_id = source_id(last.call.source)
                       /\ d.content_hash = generate_content_hash(last.call.content)
                       /\ RowsOf(d.id) # {}}) >= 2

-----------------------------------------------------------------------------
(* Properties of ScrapedDocumentEmbedder, checked under SpecScraped *)

\* C5: a document whose persistence failed in one run (counted in failed_count) is
\* attempted again by embed_document in the next run over the same input, and is
\* not skipped as already existing.
C5_FailedIsRetried ==
    \A i \in DOMAIN ScrapedInput :
        sc_prev[i] = "failed" => sc_result[i] # "skipped"

\* C7: within one run, of two input documents with identical content and different
\* titles only the first is persisted; the second is counted as skipped and no row
\* is stored for it.
C7_SameContentPersistedOnce ==
    \A i, j \in DOMAIN ScrapedInput :
        (/\ i < j
         /\ ScrapedInput[i].content = ScrapedInput[j].content
         /\ ScrapedInput[i].title # ScrapedInput[j].title
         /\ sc_run = 1
         /\ sc_result[i] = "embedded"
         /\ sc_result[j] # "pending")
            => (/\ sc_result[j] = "skipped"
                /\ \A d \in medical_documents : d.title # ScrapedInput[j].title)

-----------------------------------------------------------------------------
(* Properties of MedicalDocumentEmbedder and AutoScrapingEmbeddingPipeline,
   checked under SpecPipeline *)

\* the chunk indices of the entries of data emitted for the p-th document
ChunksEmittedIn(data, p) ==
    {data[k].chunk_index :
        k \in {j \in DOMAIN data :
                 data[j].document_id = generate_document_id(PipelineDocs[p])}}

ChunksEmitted(p) == ChunksEmittedIn(pl_embedding_data, p)

\* the error counter of the script: processing_errors or failed_embeddings
ErrorsCounted ==
    IF pl_impl = "mcp" THEN pl_stats.processing_errors
    ELSE pl_stats.failed_embeddings

\* the documents the script counts as embedded so far: documents_processed, or
\* the documents seen less failed_embeddings, which line 241 stores in
\* total_documents_embedded
DocumentsCounted ==
    IF pl_impl = "mcp" THEN pl_stats.documents_processed
    ELSE pl_i - pl_stats.failed_embeddings

RECURSIVE RaisedUpTo(_)
RaisedUpTo(p) ==
    IF p = 0 THEN 0 ELSE RaisedUpTo(p - 1) + Cardinality(pl_log[p].raising)

\* C8: when the dimension observed in setup_embedding_model differs from the
\* configured 768, the run aborts before any document is embedded or prepared for
\* upload, and the configured dimension is never changed to the observed one.
C8_DimensionMismatchIsFatal ==
    (pl_pc # "created" /\ pl_actual_dim # EmbeddingDimension)
        => /\ pl_pc = "aborted"
           /\ pl_dim = EmbeddingDimension
           /\ pl_embedding_data = <<>>
           /\ pl_upload = [documents |-> 0, embeddings |-> 0]

\* C9: when embedding a chunk of a document raises, the error is counted once and
\* every other chunk of that document, before and after the failing one, is
\* emitted: the chunks emitted for a document are exactly those whose encode call
\* does not raise.
C9_OnlyFailingChunkDropped ==
    /\ \A p \in DOMAIN pl_log :
          pl_log[p].chunked =>
              ChunksEmitted(p) = (0..(pl_log[p].n_chunks - 1)) \ pl_log[p].raising
    /\ ErrorsCounted = RaisedUpTo(Len(pl_log))

\* C10: a document none of whose chunks is embedded, because every chunk failed
\* or because the chunker yielded no chunk, is reported as failed and is not
\* counted in documents_processed / total_documents_embedded.
C10_ZeroChunksIsFailed ==
    [][ (/\ pl_i' = pl_i + 1
         /\ pl_log'[pl_i'].chunked
         /\ ChunksEmittedIn(pl_embedding_data', pl_i') = {})
            => (/\ DocumentsCounted' = DocumentsCounted
                /\ ErrorsCounted' > ErrorsCounted) ]_vars

\* C11: for every document, the chunk_index values of the entries emitted for it
\* are exactly 0..n-1, without gap or repeat and in text order, also when some of
\* its chunks failed to embed and were dropped.
C11_ChunkIndexContiguous ==
    /\ \A p \in DOMAIN pl_log :
          ChunksEmitted(p) = 0..(Cardinality(ChunksEmitted(p)) - 1)
    /\ \A j, k \in DOMAIN pl_embedding_data :
          (j < k /\ pl_embedding_data[j].document_id = pl_embedding_data[k].document_id)
              => pl_embedding_data[j].chunk_index < pl_embedding_data[k].chunk_index

-----------------------------------------------------------------------------
(* Properties of main, checked under SpecMain *)

\* the content is absent, or shorter than the minimum length once stripped
BelowMinimum(content) ==
    ~content.some \/ Len(strip(content.text)) < MAIN_min_content_len

\* the handled sources whose content was below the minimum
RejectedSources == {i \in DOMAIN mn_log : BelowMinimum(mn_log[i].content)}

\* C12: a source whose content is absent or below the minimum length is rejected:
\* embed_document is not called for it, no document or chunk row is inserted, the
\* registry is unchanged, and the source is counted in sources_skipped when the
\* session is ended.
C12_BelowMinimumIsRejected ==
    [][ /\ (mn_i' = mn_i + 1 /\ BelowMinimum(mn_log'[mn_i'].content))
            => /\ ~mn_log'[mn_i'].called
               /\ last' = last
               /\ StoreUnchanged
               /\ RegistryUnchanged
               /\ mn_processed' = mn_processed
        /\ (mn_pc = "loop" /\ mn_pc' = "done")
            => /\ mn_sessions'[Len(mn_sessions')].sources_skipped
                    = Len(MainSources) - mn_processed
               /\ Len(MainSources) - mn_processed >= Cardinality(RejectedSources) ]_vars

\* a run ended after rejecting a source without content and a source with too
\* short a content, and embedding a third
C12_Witness ==
    /\ mn_pc = "done"
    /\ \E i, j, k \in DOMAIN mn_log :
        /\ ~mn_log[i].content.some
        /\ mn_log[j].content.some /\ BelowMinimum(mn_log[j].content)
        /\ mn_log[k].called
    /\ mn_sessions[Len(mn_sessions)].sources_skipped = 2
    /\ Cardinality(medical_documents) = 1

-----------------------------------------------------------------------------
(* Properties of the chunkers, checked under SpecChunker *)

\* C13: a chunker called with overlap >= chunk size rejects the call with an
\* error before any chunk is produced: it neither enters its loop nor returns a
\* chunk list.
C13_InvalidConfigRejected ==
    (ck_overlap >= ck_chunk_size /\ ck_pc # "called")
        => (ck_pc = "raised" /\ ck_chunks = <<>>)

\* C14: for every text and every configuration with 0 <= overlap < chunk size,
\* every iteration of chunk_text moves the window start strictly forward, also
\* when a sentence boundary shortened the window, so that the loop reaches the
\* end of the text and terminates.
C14_WindowStartAdvances ==
    [][ (/\ ck_fn \in {"DE", "SC"}
         /\ 0 <= ck_overlap /\ ck_overlap < ck_chunk_size
         /\ ck_pc = "loop")
            => ck_start' > ck_start ]_vars

\* the character positions (from 0) of the text that the window w holds
WindowPositions(w) ==
    PyIndex(w.start, Len(ck_text))..(PyIndex(w.end, Len(ck_text)) - 1)

\* the positions of the text that hold a character other than whitespace
InkPositions == {p \in 0..(Len(ck_text) - 1) : ck_text[p + 1] \notin Whitespace}

\* the positions held by some window cut so far
CoveredPositions == UNION {WindowPositions(ck_windows[k]) : k \in DOMAIN ck_windows}

\* chunk_text was called with a text longer than the chunk size and an overlap
\* below it
LongTextValidConfig ==
    /\ ck_fn \in {"DE", "SC"}
    /\ Len(ck_text) > ck_chunk_size
    /\ 0 <= ck_overlap /\ ck_overlap < ck_chunk_size

\* C15: for a content longer than the chunk size and an overlap below it, each
\* window after the first starts at or before the end of the previous window, and
\* when chunk_text returns every non-whitespace character position of the content
\* lies inside a returned chunk: the chunks are the stripped windows, there are as
\* many chunks as windows holding such a character, and the windows hold them all.
C15_ChunkCoverage ==
    LongTextValidConfig =>
        /\ \A k \in DOMAIN ck_windows :
              k > 1 => ck_windows[k].start <= ck_windows[k - 1].end
        /\ ck_pc = "returned" =>
              /\ InkPositions \subseteq CoveredPositions
              /\ Len(ck_chunks) =
                    Cardinality({k \in DOMAIN ck_windows :
                                    WindowPositions(ck_windows[k]) \cap InkPositions # {}})
              /\ \A c \in DOMAIN ck_chunks :
                    \E k \in DOMAIN ck_windows :
                        ck_chunks[c] = strip(PySlice(ck_text, ck_windows[k].start,
                                                     ck_windows[k].end))

\* chunk_text returned several chunks for a text with a space and a full stop,
\* after a sentence boundary had shortened a window
C15_Witness ==
    /\ LongTextValidConfig
    /\ ck_pc = "returned"
    /\ Len(ck_chunks) >= 3
    /\ ck_overlap > 0
    /\ \E p \in DOMAIN ck_text : ck_text[p] = " "
    /\ \E k \in DOMAIN ck_windows :
          ck_windows[k].end - ck_windows[k].start < ck_chunk_size
          /\ ck_windows[k].end < Len(ck_text)

\* C16: every chunk returned by DocumentEmbedder.chunk_text has at most
\* chunk_size characters, also when the sentence-boundary search moved the cut.
C16_ChunkSizeBound ==
    (ck_fn = "DE" /\ ck_pc = "returned" /\ Len(ck_text) > ck_chunk_size)
        => \A c \in DOMAIN ck_chunks : Len(ck_chunks[c]) <= ck_chunk_size

\* C17: a text of at most chunk_size characters is returned by chunk_text
\* (embed_documents.py, embed_scraped_documents.py) as exactly one chunk, the
\* text itself, untrimmed, whatever the overlap and even when the text is
\* empty or blank.
C17_ShortTextIsOneChunk ==
    (ck_fn \in {"DE", "SC"} /\ ck_pc # "called" /\ Len(ck_text) <= ck_chunk_size)
        => (ck_pc = "returned" /\ ck_chunks = <<ck_text>> /\ ck_windows = <<>>)

\* a short text with surrounding blanks has been returned
C17_Witness ==
    /\ ck_fn \in {"DE", "SC"}
    /\ ck_pc = "returned"
    /\ Len(ck_text) <= ck_chunk_size
    /\ ck_text # <<>>
    /\ strip(ck_text) # ck_text
    /\ Len(ck_chunks) = 1

\* every returned chunk has a character that is not whitespace
EveryChunkHasText ==
    \A c \in DOMAIN ck_chunks : strip(ck_chunks[c]) # <<>>

\* the fragment of every window that has such a character is among the chunks
NoTextFragmentDropped ==
    \A w \in DOMAIN ck_windows :
        LET fragment == strip(PySlice(ck_text, ck_windows[w].start, ck_windows[w].end))
        IN  fragment # <<>> => \E c \in DOMAIN ck_chunks : ck_chunks[c] = fragment

\* C18: create_text_chunks (embed_and_upload_mcp.py) and chunk_text
\* (rapid_insertion.py) discard exactly the empty and whitespace-only
\* fragments: every chunk they return has a character that is not whitespace,
\* and every window whose text has such a character is returned as a chunk.
C18_OnlyBlankFragmentsDiscarded ==
    (ck_fn \in {"MCP", "RAPID"} /\ ck_pc = "returned")
        => (EveryChunkHasText /\ NoTextFragmentDropped)

-----------------------------------------------------------------------------
(* Properties of EnhancedMedicalScraper.scrape_all_sources, checked under
   SpecScraper *)

\* every document of the list carries the hash of its own content
OwnContentHash(documents) ==
    \A d \in DOMAIN documents :
        documents[d].content_hash = md5_hexdigest(documents[d].content)

\* C19: every document scrape_all_sources returns carries the md5 of its own
\* content as content_hash, the "(Part i)" documents of chunk_large_documents
\* included, so two returned documents have the same content_hash exactly
\* when they have the same content.
C19_ContentHashOfOwnContent ==
    es_pc = "returned" =>
        /\ OwnContentHash(es_documents)
        /\ \A d, e \in DOMAIN es_documents :
              (es_documents[d].content_hash = es_documents[e].content_hash)
                  <=> (es_documents[d].content = es_documents[e].content)

\* the requests made for the source at position i of the list
RequestsOf(fetches, i) == {k \in DOMAIN fetches : fetches[k].source = i}

\* a request made for that source failed
FetchFailed(fetches, i) == \E k \in RequestsOf(fetches, i) : fetches[k].failed

\* C20: when fetching the content of a source fails, the source is not
\* requested again in the run and is skipped, with no row inserted and the
\* registry unchanged; the loop goes on to the sources after it, no failure to
\* obtain a content ends the run, and the run ends its session and saves the
\* registry once every source has been handled.
C20_LogAndSkipWithoutRetry ==
    [][ /\ (mn_i' = mn_i + 1 /\ FetchFailed(mn_fetches', mn_i'))
            => /\ Cardinality(RequestsOf(mn_fetches', mn_i')) = 1
               /\ ~mn_log'[mn_i'].called
               /\ last' = last
               /\ StoreUnchanged
               /\ RegistryUnchanged
        /\ mn_pc = "loop" => mn_pc' # "crashed"
        /\ (mn_pc = "loop" /\ mn_pc' = "done")
            => /\ mn_i = Len(MainSources)
               /\ mn_sessions'[Len(mn_sessions')].status = "completed"
               /\ mn_saved' = registry_snapshot(embedded_documents', statistics',
                                                mn_sessions') ]_vars

-----------------------------------------------------------------------------
(* Properties of ScrapedDocumentEmbedder.embed_scraped_documents, checked
   under SpecScraped *)

\* the input positions the current run gave the result to
PositionsWith(result) == {i \in DOMAIN sc_result : sc_result[i] = result}

\* the chunks of the documents at the positions of S
RECURSIVE ChunksOfPositions(_)
ChunksOfPositions(S) ==
    IF S = {} THEN 0
    ELSE LET i == CHOOSE j \in S : TRUE
         IN  Len(SC_chunk_text(ScrapedInput[i].content)) + ChunksOfPositions(S \ {i})

\* C21: when embed_scraped_documents finishes, every input document is counted
\* in exactly one of embedded_count, skipped_count and failed_count, so the
\* three add up to the number of input documents, and total_chunks is the sum
\* of the chunk counts of the documents counted as embedded.
C21_RunEndAccounting ==
    sc_pc = "finished" =>
        /\ PositionsWith("pending") = {}
        /\ sc_counts.embedded_count = Cardinality(PositionsWith("embedded"))
        /\ sc_counts.skipped_count = Cardinality(PositionsWith("skipped"))
        /\ sc_counts.failed_count = Cardinality(PositionsWith("failed"))
        /\ sc_counts.embedded_count + sc_counts.skipped_count + sc_counts.failed_count
              = Len(ScrapedInput)
        /\ sc_counts.total_chunks = ChunksOfPositions(PositionsWith("embedded"))

\* a run has finished with a document embedded, one skipped and one failed
C21_Witness ==
    /\ sc_pc = "finished"
    /\ sc_counts.embedded_count = 1
    /\ sc_counts.skipped_count = 1
    /\ sc_counts.failed_count = 1
    /\ sc_counts.total_chunks > 0

-----------------------------------------------------------------------------
(* Properties of main with --clear-db, checked under SpecSecondMain *)

\* C22: with --clear-db, when main reaches its first source both tables are
\* empty, the registry has no embedded document and zeroed counters, and the
\* registry file was written without any session (the only session of the
\* registry is the one the run has just started); the registry is reset only
\* once clear_database has returned: when clear_database raises, the registry
\* and its file are left as they were and the run ends with no source handled.
C22_ClearDbStartsFresh ==
    [][ /\ (mn_pc = "init" /\ mn_clear_db /\ mn_pc' = "loop")
            => /\ document_embeddings' = {}
               /\ medical_documents' = {}
               /\ embedded_documents' = <<>>
               /\ statistics' = ZeroStatistics
               /\ mn_saved' = registry_snapshot(<<>>, ZeroStatistics, <<>>)
               /\ mn_sessions' = <<new_session(Len(MainSources), TRUE, mn_force)>>
               /\ mn_i' = 0 /\ mn_log' = <<>>
        /\ (mn_pc = "init" /\ mn_pc' = "crashed")
            => /\ mn_clear_db
               /\ RegistryUnchanged
               /\ mn_sessions' = mn_sessions
               /\ mn_saved' = mn_saved
               /\ mn_log' = <<>> /\ mn_fetches' = <<>>
        /\ mn_pc = "crashed" => vars' = vars
        /\ (mn_clear_db /\ mn_i' = 1 /\ mn_i = 0)
            => /\ document_embeddings = {}
               /\ medical_documents = {}
               /\ embedded_documents = <<>>
               /\ statistics = ZeroStatistics ]_vars

\* the first source is about to be processed after --clear-db emptied a store
\* and a registry that held a document
C22_Witness ==
    /\ mn_clear_db
    /\ mn_pc = "loop"
    /\ mn_i = 0
    /\ next_id = 2
    /\ medical_documents = {}
    /\ embedded_documents = <<>>

-----------------------------------------------------------------------------
(* Properties of smart_upload_remaining.main, checked under SpecUpload *)

\* C23: smart_upload_remaining sends the INSERT of a document only when no row
\* of the table has the document's id, and sends at most one INSERT per id in
\* a run, whatever the query that loads the existing ids did, its failure
\* included.
C23_UploadsOnlyNewIdsOnce ==
    /\ \A c \in DOMAIN su_calls : ~su_calls[c].present
    /\ \A c, d \in DOMAIN su_calls : su_calls[c].id = su_calls[d].id => c = d

-----------------------------------------------------------------------------
(* Properties of DocumentRegistry, checked under Spec *)

\* the sum of chunk_count over the entries with the given source ids
RECURSIVE ChunkCountOf(_, _)
ChunkCountOf(docs, sids) ==
    IF sids = {} THEN 0
    ELSE LET sid == CHOOSE x \in sids : TRUE
         IN  docs[sid].chunk_count + ChunkCountOf(docs, sids \ {sid})

\* C24: after any sequence of add_embedded_document calls from an empty
\* registry, re-embedding a source with force or with changed content
\* included, statistics.total_documents_embedded is the number of entries of
\* embedded_documents and statistics.total_chunks_created is the sum of their
\* chunk_count.
C24_CountersMatchRegistry ==
    /\ statistics.total_documents_embedded = Cardinality(DOMAIN embedded_documents)
    /\ statistics.total_chunks_created
          = ChunkCountOf(embedded_documents, DOMAIN embedded_documents)

-----------------------------------------------------------------------------
(* Properties of the duplicate removal of the scrapers, checked under
   SpecDedup *)

\* the position in the argument list of the document at position k of the result
InputPosition(k) == CHOOSE i \in DOMAIN dd_documents : dd_documents[i].title = dd_unique[k].title

\* the first position of the argument list that holds the content
FirstPosition(content) ==
    SetMin({i \in DOMAIN dd_documents : dd_documents[i].content = content})

\* C25: the duplicate removal of each scraper keeps exactly the first document
\* of every distinct content: the result is a subsequence of the argument in
\* its order, no two documents of the result have the same content, and every
\* content of the argument is the content of a document of the result.
C25_KeepsFirstOfEachContent ==
    dd_pc = "returned" =>
        /\ \A k \in DOMAIN dd_unique :
              /\ \E i \in DOMAIN dd_documents : dd_documents[i].title = dd_unique[k].title
              /\ dd_unique[k].content = dd_documents[InputPosition(k)].content
              /\ dd_unique[k].url = dd_documents[InputPosition(k)].url
              /\ InputPosition(k) = FirstPosition(dd_unique[k].content)
        /\ \A j, k \in DOMAIN dd_unique :
              /\ j < k => InputPosition(j) < InputPosition(k)
              /\ j # k => dd_unique[j].content # dd_unique[k].content
        /\ \A i \in DOMAIN dd_documents :
              \E k \in DOMAIN dd_unique : dd_unique[k].content = dd_documents[i].content

\* the removal by content_hash has returned two documents of a list in which
\* a document without content_hash repeats the content of a document with one
C25_Witness ==
    /\ dd_impl = "web-scraping"
    /\ dd_pc = "returned"
    /\ Len(dd_documents) = DD_MaxDocs
    /\ Len(dd_unique) = 2
    /\ \E i, j \in DOMAIN dd_documents :
          /\ i < j
          /\ dd_documents[i].content = dd_documents[j].content
          /\ dd_documents[i].content_hash # NoHash
          /\ dd_documents[j].content_hash = NoHash

-----------------------------------------------------------------------------
(* Properties of EnhancedMedicalScraper.scrape_all_sources and its coroutines,
   checked under SpecCrawl *)

\* the configured category of a name
CategoryNamed(name) ==
    CHOOSE c \in {CR_Categories[i] : i \in DOMAIN CR_Categories} : c.name = name

\* the place of a category in the order high, medium, low or unknown
PlaceOf(name) ==
    IF CategoryNamed(name).priority = "high" THEN 0
    ELSE IF CategoryNamed(name).priority = "medium" THEN 1
    ELSE 2

\* the entries of the history that belong to a category's processing
OfCategory(j) == cr_log[j].kind \in {"category", "request", "source_done"}

\* before entry j, every source of the category has completed
SourcesCompletedBefore(category, j) ==
    \A s \in DOMAIN category.sources :
        \E i \in 1..(j - 1) :
            /\ cr_log[i].kind = "source_done"
            /\ cr_log[i].cat = category.name
            /\ cr_log[i].src = category.sources[s].name

\* before entry j, the loop has taken up the category, and has completed its
\* sources unless taking it up raised
ProcessedBefore(category, j) ==
    /\ \E i \in 1..(j - 1) : cr_log[i].kind = "category" /\ cr_log[i].cat = category.name
    /\ ~category.broken => SourcesCompletedBefore(category, j)

\* C26: scrape_all_sources processes the categories in the order high, medium,
\* low or unknown, one at a time: whatever is done for a category is done after
\* every source of each category before it has completed; the API sources are
\* scraped after all categories, with no request after them; and a category
\* that raises does not keep the later ones from being processed.
C26_PriorityOrdering ==
    /\ \A i, j \in DOMAIN cr_log :
            (i < j /\ OfCategory(i) /\ OfCategory(j)) =>
                PlaceOf(cr_log[i].cat) <= PlaceOf(cr_log[j].cat)
    /\ \A j \in DOMAIN cr_log :
            OfCategory(j) =>
                \A c \in DOMAIN CR_Categories :
                    PlaceOf(CR_Categories[c].name) < PlaceOf(cr_log[j].cat) =>
                        ProcessedBefore(CR_Categories[c], j)
    /\ \A j \in DOMAIN cr_log :
            cr_log[j].kind = "api" =>
                /\ \A c \in DOMAIN CR_Categories : ProcessedBefore(CR_Categories[c], j)
                /\ \A k \in DOMAIN cr_log : k > j => ~OfCategory(k)
    /\ es_pc \in {"collected", "unique", "filtered", "returned", "raised"} =>
            \E j \in DOMAIN cr_log : cr_log[j].kind = "api"

\* the category of medium priority has raised, a URL of the category after it
\* has been requested, and the API sources have been scraped
C26_Witness ==
    \E i, j, k \in DOMAIN cr_log :
        /\ i < j /\ j < k
        /\ cr_log[i].kind = "category" /\ CategoryNamed(cr_log[i].cat).broken
        /\ cr_log[j].kind = "request" /\ cr_log[j].cat = "c_other"
        /\ cr_log[k].kind = "api"

\* the documents the unfinished scrape_single_url gathers of the sources hold
RECURSIVE pending_documents(_, _)
pending_documents(tasks, s) ==
    IF s > Len(tasks) THEN <<>>
    ELSE batch_documents(tasks[s].tasks) \o pending_documents(tasks, s + 1)

\* the documents scrape_single_url has returned so far: those already in
\* all_documents, those a source has collected and those a gather holds
ReturnedBySingleUrl ==
    SelectSeq(es_documents, LAMBDA d : d.content_hash # NoHash)
        \o category_documents(cr_tasks, 1) \o pending_documents(cr_tasks, 1)

\* C28: under any interleaving of the scrape_single_url coroutines of the
\* batches and sources of a category, no two documents returned by
\* scrape_single_url carry the same content hash.
C28_OneDocumentPerContentHash ==
    es_pc \in {"categories", "gathering", "collected"} =>
        \A i, j \in DOMAIN ReturnedBySingleUrl :
            ReturnedBySingleUrl[i].content_hash = ReturnedBySingleUrl[j].content_hash => i = j

\* two coroutines gathered for two sources of the category have received the
\* same content: one has returned the document, the other has returned None
C28_Witness ==
    /\ es_pc = "gathering"
    /\ \E s1, s2 \in DOMAIN cr_tasks :
        /\ s1 # s2
        /\ \E k1 \in DOMAIN cr_tasks[s1].tasks, k2 \in DOMAIN cr_tasks[s2].tasks :
            /\ cr_tasks[s1].tasks[k1].pc = "done"
            /\ cr_tasks[s2].tasks[k2].pc = "done"
            /\ cr_tasks[s1].tasks[k1].got = cr_tasks[s2].tasks[k2].got
            /\ cr_tasks[s1].tasks[k1].some
            /\ ~cr_tasks[s2].tasks[k2].some

\* C29: no URL is requested twice and no second scrape_single_url coroutine is
\* created for a URL, also when two sources scraped concurrently list it.
C29_EachUrlRequestedOnce ==
    /\ \A i, j \in DOMAIN cr_log :
            (/\ cr_log[i].kind = "request"
             /\ cr_log[j].kind = "request"
             /\ cr_log[i].url = cr_log[j].url) => i = j
    /\ \A s1, s2 \in DOMAIN cr_tasks :
            \A k1 \in DOMAIN cr_tasks[s1].tasks, k2 \in DOMAIN cr_tasks[s2].tasks :
                cr_tasks[s1].tasks[k1].url = cr_tasks[s2].tasks[k2].url =>
                    (s1 = s2 /\ k1 = k2)
    /\ \A s \in DOMAIN cr_tasks : \A k \in DOMAIN cr_tasks[s].tasks :
            cr_tasks[s].tasks[k].pc = "created" =>
                \A i \in DOMAIN cr_log :
                    cr_log[i].kind = "request" => cr_log[i].url # cr_tasks[s].tasks[k].url

\* two sources of the category list the same URL: one has requested it, the
\* other has passed it over
C29_Witness ==
    \E s1, s2 \in DOMAIN cr_tasks :
        /\ s1 # s2
        /\ \E k \in DOMAIN cr_tasks[s2].skipped, i \in DOMAIN cr_log :
            /\ cr_log[i].kind = "request"
            /\ cr_log[i].src = cr_tasks[s1].name
            /\ cr_log[i].url = cr_tasks[s2].skipped[k]

-----------------------------------------------------------------------------
(* Property of simple_flask.generate_embedding, checked under SpecFlask *)

\* C27: two answered /embed requests with the same text carry the same
\* embedding, whatever other requests were handled at the same time.
C27_SameTextSameEmbedding ==
    \A r1, r2 \in DOMAIN fl_requests :
        (/\ fl_requests[r1].pc = "answered"
         /\ fl_requests[r2].pc = "answered"
         /\ fl_requests[r1].text = fl_requests[r2].text)
            => fl_requests[r1].embedding = fl_requests[r2].embedding

-----------------------------------------------------------------------------
(* Property of the registry file over a run of main, checked under SpecMain *)

\* C30: however the run ends, every document the run has embedded and entered
\* in the registry is in the registry file as last written.
C30_RegistryDurable ==
    mn_pc \in {"done", "crashed"} =>
        \A sid \in DOMAIN embedded_documents :
            /\ sid \in DOMAIN mn_saved.embedded_documents
            /\ mn_saved.embedded_documents[sid] = embedded_documents[sid]

====
